---------------------------- MODULE Spec2Model ----------------------------
(***************************************************************************)
(* A model of the closed control loop of the DevOps agent: the Decision    *)
(* Engine (decision_engine.py), the Action Executor (action_executor.py),  *)
(* the Learning Module (learning_module.py), the Monitoring Subsystem      *)
(* (monitoring_system.py) and the orchestrating agent (devops_agent.py).   *)
(*                                                                         *)
(* Units.  Percentages are integers; response times are milliseconds       *)
(* (2.0 s = 2000); error rates are hundredths of a percent (5.0 % = 500);  *)
(* datetimes are minutes; effectiveness scores are tenths (0.5 = 5).       *)
(* An Optional value is a set with at most one element.                    *)
(***************************************************************************)
EXTENDS Integers, Sequences, FiniteSets, TLC

VARIABLES
    \* ---- Decision Engine (one make_decisions call) ----
    system_state,       \* the SystemState handed to make_decisions
    context,            \* the ProjectContext handed to make_decisions
    now,                \* datetime.now() during the call, in minutes
    engine_pc,          \* "ready" before the call, "returned" after it
    analyzed,           \* the four analyzers' outputs of the call
    decisions,          \* the list make_decisions returned
    decision_history,   \* DecisionEngine.decision_history
    config,             \* the configuration dict the subsystems were constructed with
    \* ---- Action Executor: heal_service handler ----
    heal_decision,      \* the Decision handed to _execute_heal_service
    heal_pc,            \* "loop" | "command" | "sleep" | "done"
    attempt,            \* the loop variable of range(max_attempts)
    cmd_log,            \* outcomes of the _run_command calls made so far
    heal_result,        \* the ExecutionResult returned (Optional)
    \* ---- Action Executor: execute_deployment ----
    plan,               \* deployment_plan["stages"]
    deploy_pc,          \* "stage" | "done" | "error"
    stage_idx,          \* index of the next stage of the for loop
    stage_results,      \* results["stage_results"]
    overall_success,    \* results["overall_success"]
    \* ---- Action Executor: execute_action ----
    execution_history,  \* ActionExecutor.execution_history
    exec_call,          \* the last execute_action call: decision, handler behaviour, outcome
    \* ---- Learning Module ----
    learned_thresholds, \* LearningModule.learned_thresholds
    outcome_log,        \* every ActionOutcome fed to _learn_patterns, in arrival order
    recommendation,     \* what the last get_decision_recommendations call returned
    \* ---- Periodic tasks and the agent's flags ----
    is_running,         \* DevOpsAgent.is_running
    is_monitoring,      \* MonitoringSystem.is_monitoring
    starts,             \* number of start_monitoring calls made
    task_pc,            \* task_pc[kind][instance]: position of each periodic task
    health_idx,         \* health_idx[instance]: index of the service being checked
    loop_left,          \* loop_left[instance]: decisions of the cycle not yet executed
    cycle_bit,          \* cycle_bit[instance]: flips whenever the decision loop begins a cycle
    after_error,        \* after_error[instance]: the cycle in execution began after a backoff
    \* ---- Monitoring System: alerts ----
    clock,              \* the wall clock (datetime.now()), in minutes
    current_alerts,     \* MonitoringSystem.current_alerts
    pass_log,           \* the alert-check pass just completed: the alerts before it, its time
    health_pass,        \* the health-check pass: next service index and how the pass stands
    \* ---- DevOpsAgent: the public operations ----
    project_context,    \* DevOpsAgent.project_context (Optional)
    deployed,           \* a deploy() call has completed
    api_call,           \* the last public operation called and how it ended
    status_reports,     \* the reports get_status returned, in call order
    \* ---- DevOpsAgent: one cycle of the decision loop ----
    exec_pos,           \* index in decisions of the last execute_action call begun (0: none)
    cycle_log,          \* what the decision loop did so far, in order
    \* ---- Learning Module: effectiveness tracking and patterns ----
    decision_effectiveness, \* LearningModule.decision_effectiveness
    performance_patterns,   \* LearningModule.performance_patterns
    metrics_call,           \* the last _calculate_outcome_metrics call and what it returned
    \* ---- Monitoring System: system states handed out ----
    returned_states         \* the SystemStates get_system_state returned and a caller still holds

engineVars == <<system_state, context, now, engine_pc, analyzed, decisions, decision_history,
               config>>
healVars   == <<heal_decision, heal_pc, attempt, cmd_log, heal_result>>
deployVars == <<plan, deploy_pc, stage_idx, stage_results, overall_success>>
execVars   == <<execution_history, exec_call>>
learnVars  == <<learned_thresholds, outcome_log, recommendation>>
taskVars   == <<is_running, is_monitoring, starts, task_pc, health_idx, loop_left, cycle_bit,
               after_error>>
monitorVars == <<clock, current_alerts, pass_log, health_pass>>
agentVars  == <<project_context, deployed, api_call, status_reports>>
loopVars   == <<exec_pos, cycle_log>>
patternVars == <<decision_effectiveness, performance_patterns, metrics_call>>
snapVars   == <<returned_states>>
vars == <<engineVars, healVars, deployVars, execVars, learnVars, taskVars, monitorVars,
          agentVars, loopVars, patternVars, snapVars>>

Min(a, b) == IF a <= b THEN a ELSE b
Max(a, b) == IF a >= b THEN a ELSE b

(***************************************************************************)
(* Decision Engine                                                         *)
(***************************************************************************)

\* class Priority(Enum)
Priority == [LOW |-> 1, MEDIUM |-> 2, HIGH |-> 3, CRITICAL |-> 4]

\* class ActionType(Enum): the values
ActionType == {"scale_up", "scale_down", "restart_service", "deploy_update", "rollback",
               "update_config", "create_alert", "heal_service", "optimize_performance",
               "update_security"}

\* The services of the monitored system, in dict insertion order.
Services == <<"web", "api", "database", "cache", "queue">>

\* DecisionEngine._load_thresholds
LoadThresholds ==
    [cpu_scale_up |-> 80, cpu_scale_down |-> 30, memory_scale_up |-> 85,
     memory_scale_down |-> 40, disk_usage |-> 90, response_time |-> 2000,
     error_rate |-> 500, network_usage |-> 80]

\* self.thresholds, set once in __init__ and never reassigned
thresholds == LoadThresholds

\* datetime.hour of a time in minutes
HourOf(t) == (t \div 60) % 24

\* "ssl" in message.lower() and "expir" in message.lower(), over the messages
\* the monitoring system writes
MentionsSslExpiry(message) == message = "SSL certificate expiring in 7 days"

\* _analyze_performance_decisions
AnalyzePerformance(state, ctx, t) ==
    (IF state.cpu_usage > thresholds.cpu_scale_up
        THEN <<[action_type |-> "scale_up", priority |-> Priority.HIGH, target |-> "compute",
                parameters |-> [metric |-> "cpu", increase |-> "25%"], timestamp |-> t]>>
     ELSE IF state.cpu_usage < thresholds.cpu_scale_down
        THEN <<[action_type |-> "scale_down", priority |-> Priority.LOW, target |-> "compute",
                parameters |-> [metric |-> "cpu", decrease |-> "20%"], timestamp |-> t]>>
     ELSE <<>>)
    \o
    (IF state.memory_usage > thresholds.memory_scale_up
        THEN <<[action_type |-> "scale_up", priority |-> Priority.HIGH, target |-> "memory",
                parameters |-> [metric |-> "memory", increase |-> "30%"], timestamp |-> t]>>
     ELSE <<>>)
    \o
    (IF state.response_time > thresholds.response_time
        THEN IF ctx.caching
                THEN <<[action_type |-> "optimize_performance", priority |-> Priority.MEDIUM,
                        target |-> "cache",
                        parameters |-> [action |-> "increase_cache_size", amount |-> "50%"],
                        timestamp |-> t]>>
                ELSE <<[action_type |-> "scale_up", priority |-> Priority.MEDIUM,
                        target |-> "compute",
                        parameters |-> [metric |-> "instances", increase |-> "1"],
                        timestamp |-> t]>>
     ELSE <<>>)

\* a variant that heals at HIGH priority
HealDecisionHigh(service, t) ==
    [action_type |-> "heal_service", priority |-> Priority.HIGH, target |-> service,
     parameters |-> [action |-> "restart", max_attempts |-> 3], timestamp |-> t]

\* the heal_service decision of one service (the body of the for loop)
HealDecision(service, t) ==
    [action_type |-> "heal_service", priority |-> Priority.CRITICAL, target |-> service,
     parameters |-> [action |-> "restart", max_attempts |-> 3], timestamp |-> t]

\* for service, is_healthy in state.service_health.items(): ... , from index i on
RECURSIVE HealDecisions(_, _, _)
HealDecisions(health, i, t) ==
    IF i > Len(Services) THEN <<>>
    ELSE (IF ~health[Services[i]] THEN <<HealDecision(Services[i], t)>> ELSE <<>>)
         \o HealDecisions(health, i + 1, t)

\* a variant that counts a deployment exactly one hour old as recent
RecentDeploymentInclusive(state, t) ==
    \E d \in state.last_deployment : t - d <= 60

\* state.last_deployment and datetime.now() - state.last_deployment < timedelta(hours=1)
RecentDeployment(state, t) ==
    \E d \in state.last_deployment : t - d < 60

\* the error-rate rule of _analyze_health_decisions
ErrorRateDecisions(state, t) ==
    IF state.error_rate > thresholds.error_rate
        THEN IF RecentDeployment(state, t)
                THEN <<[action_type |-> "rollback", priority |-> Priority.CRITICAL,
                        target |-> "deployment",
                        parameters |-> [target |-> "previous_stable"], timestamp |-> t]>>
                ELSE <<[action_type |-> "restart_service", priority |-> Priority.HIGH,
                        target |-> "application",
                        parameters |-> [graceful |-> TRUE, timeout |-> "30s"],
                        timestamp |-> t]>>
    ELSE <<>>

\* _analyze_health_decisions
AnalyzeHealth(state, ctx, t) ==
    HealDecisions(state.service_health, 1, t)
    \o ErrorRateDecisions(state, t)
    \o (IF state.disk_usage > thresholds.disk_usage
           THEN <<[action_type |-> "optimize_performance", priority |-> Priority.MEDIUM,
                   target |-> "storage",
                   parameters |-> [action |-> "cleanup_logs", retention |-> "7d"],
                   timestamp |-> t]>>
        ELSE <<>>)

\* the first loop of _analyze_security_decisions, from index i on
RECURSIVE SecurityAlertDecisions(_, _, _)
SecurityAlertDecisions(alerts, i, t) ==
    IF i > Len(alerts) THEN <<>>
    ELSE (IF alerts[i].type = "security" /\ alerts[i].severity = "high"
             THEN <<[action_type |-> "update_security", priority |-> Priority.CRITICAL,
                     target |-> "firewall",
                     parameters |-> [action |-> "block_suspicious_ips",
                                     alert_id |-> alerts[i].id],
                     timestamp |-> t]>>
          ELSE <<>>)
         \o SecurityAlertDecisions(alerts, i + 1, t)

\* the second loop of _analyze_security_decisions, from index i on
RECURSIVE SslDecisions(_, _, _)
SslDecisions(alerts, i, t) ==
    IF i > Len(alerts) THEN <<>>
    ELSE (IF MentionsSslExpiry(alerts[i].message)
             THEN <<[action_type |-> "update_security", priority |-> Priority.HIGH,
                     target |-> "certificates",
                     parameters |-> [action |-> "renew_certificates"], timestamp |-> t]>>
          ELSE <<>>)
         \o SslDecisions(alerts, i + 1, t)

\* _analyze_security_decisions
AnalyzeSecurity(state, ctx, t) ==
    SecurityAlertDecisions(state.alerts, 1, t) \o SslDecisions(state.alerts, 1, t)

\* _analyze_cost_decisions
AnalyzeCost(state, ctx, t) ==
    (IF (HourOf(t) < 8 \/ HourOf(t) > 18) /\ ctx.project_type # "production"
           /\ state.cpu_usage < 20 /\ state.memory_usage < 30
        THEN <<[action_type |-> "scale_down", priority |-> Priority.LOW, target |-> "compute",
                parameters |-> [schedule |-> "off_hours", reduction |-> "50%"],
                timestamp |-> t]>>
     ELSE <<>>)
    \o
    (IF state.cpu_usage < 5 /\ state.memory_usage < 10
        THEN <<[action_type |-> "optimize_performance", priority |-> Priority.LOW,
                target |-> "resources",
                parameters |-> [action |-> "identify_unused", threshold |-> "1h"],
                timestamp |-> t]>>
     ELSE <<>>)

\* list.sort(key=..., reverse=True) is stable: d goes after every element whose
\* priority is at least its own
RECURSIVE InsertByPriority(_, _)
InsertByPriority(sorted, d) ==
    IF sorted = <<>> THEN <<d>>
    ELSE IF Head(sorted).priority >= d.priority
            THEN <<Head(sorted)>> \o InsertByPriority(Tail(sorted), d)
            ELSE <<d>> \o sorted

RECURSIVE SortFrom(_, _, _)
SortFrom(ds, i, acc) ==
    IF i > Len(ds) THEN acc ELSE SortFrom(ds, i + 1, InsertByPriority(acc, ds[i]))

\* a variant whose sort puts equal priorities in reverse order of production
SortByPriorityUnstable(ds) == SortFrom([i \in 1..Len(ds) |-> ds[Len(ds) + 1 - i]], 1, <<>>)

\* decisions.sort(key=lambda d: d.priority.value, reverse=True)
SortByPriority(ds) == SortFrom(ds, 1, <<>>)

\* a variant that returns every decision
NoLimit(ds) == ds

\* a variant that keeps one decision fewer
LimitFour(ds) == SubSeq(ds, 1, Min(4, Len(ds)))

\* decisions[:5]
Limit(ds) == SubSeq(ds, 1, Min(5, Len(ds)))

\* the four analyzer calls of make_decisions
Analyze(state, ctx, t) ==
    [performance |-> AnalyzePerformance(state, ctx, t),
     health      |-> AnalyzeHealth(state, ctx, t),
     security    |-> AnalyzeSecurity(state, ctx, t),
     cost        |-> AnalyzeCost(state, ctx, t)]

\* decisions = []; decisions.extend(...) four times
Concatenated(a) == a.performance \o a.health \o a.security \o a.cost

\* self.decision_history = [d for d in ... if d.timestamp > now - 24h]
PruneHistory(history, t) == SelectSeq(history, LAMBDA d : d.timestamp > t - 24 * 60)

(***************************************************************************)
(* Inputs of one make_decisions call.                                      *)
(***************************************************************************)
CpuSamples      == {3, 15, 50, 85}
MemorySamples   == {8, 25, 90}
DiskSamples     == {35, 95}
ResponseSamples == {800, 2500}
ErrorSamples    == {150, 500, 1000}
NowSamples      == {1620, 2160}            \* 03:00 and 12:00 of the second day
DeployAges      == {5, 60}                 \* minutes since the last deployment
MaxAlerts       == 1

\* the alerts the monitoring system raises, by kind (_check_alerts, _health_checks)
AlertOfKind(kind, t) ==
    CASE kind = "cpu" ->
            [id |-> "cpu-alert", type |-> "performance", severity |-> "high",
             message |-> "High CPU usage", timestamp |-> t]
      [] kind = "memory" ->
            [id |-> "memory-alert", type |-> "performance", severity |-> "high",
             message |-> "High memory usage", timestamp |-> t]
      [] kind = "disk" ->
            [id |-> "disk-alert", type |-> "storage", severity |-> "medium",
             message |-> "High disk usage", timestamp |-> t]
      [] kind = "response" ->
            [id |-> "response-alert", type |-> "performance", severity |-> "medium",
             message |-> "Slow response time", timestamp |-> t]
      [] kind = "error" ->
            [id |-> "error-alert", type |-> "error", severity |-> "high",
             message |-> "High error rate", timestamp |-> t]
      [] kind = "security" ->
            [id |-> "security-alert", type |-> "security", severity |-> "high",
             message |-> "Suspicious login attempts detected", timestamp |-> t]
      [] kind = "ssl" ->
            [id |-> "ssl-alert", type |-> "security", severity |-> "medium",
             message |-> "SSL certificate expiring in 7 days", timestamp |-> t]

AlertKinds == {"cpu", "security", "ssl"}

SeqsUpTo(S, n) == UNION {[1..k -> S] : k \in 0..n}

AlertLists(t) ==
    {[i \in 1..Len(ks) |-> AlertOfKind(ks[i], t)] : ks \in SeqsUpTo(AlertKinds, MaxAlerts)}

SystemStates(t) ==
    [cpu_usage : CpuSamples, memory_usage : MemorySamples, disk_usage : DiskSamples,
     response_time : ResponseSamples, error_rate : ErrorSamples,
     service_health : [{Services[i] : i \in 1..Len(Services)} -> BOOLEAN],
     alerts : AlertLists(t),
     last_deployment : {{}} \cup {{t - a} : a \in DeployAges}]

Contexts == [project_type : {"python"}, caching : BOOLEAN]

\* DevOpsAgent._load_config: the defaults, and what a user configuration file
\* can set of the two switches
DefaultConfig == [auto_scale |-> TRUE, auto_heal |-> TRUE]
Configs == [auto_scale : BOOLEAN, auto_heal : BOOLEAN]

NoState   == [cpu_usage |-> 50, memory_usage |-> 25, disk_usage |-> 35, response_time |-> 800,
              error_rate |-> 150, service_health |-> [s \in {Services[i] : i \in 1..Len(Services)} |-> TRUE],
              alerts |-> <<>>, last_deployment |-> {}]
NoAnalysis == [performance |-> <<>>, health |-> <<>>, security |-> <<>>, cost |-> <<>>]

EngineIdle ==
    /\ system_state = NoState
    /\ context = [project_type |-> "python", caching |-> FALSE]
    /\ now = 1620
    /\ engine_pc = "idle"
    /\ analyzed = NoAnalysis
    /\ decisions = <<>>
    /\ decision_history = <<>>
    /\ config = DefaultConfig

HealIdle ==
    /\ heal_decision = HealDecision("web", 0)
    /\ heal_pc = "idle"
    /\ attempt = 0
    /\ cmd_log = <<>>
    /\ heal_result = {}

DeployIdle ==
    /\ plan = <<>>
    /\ deploy_pc = "idle"
    /\ stage_idx = 1
    /\ stage_results = <<>>
    /\ overall_success = TRUE

ExecIdle ==
    /\ execution_history = <<>>
    /\ exec_call = {}

LearnIdle ==
    /\ learned_thresholds = [k \in {} |-> <<>>]
    /\ outcome_log = <<>>
    /\ recommendation = {}

MonitorIdle ==
    /\ clock = 0
    /\ current_alerts = <<>>
    /\ pass_log = {}
    /\ health_pass = [idx |-> 0, ended |-> "none"]

AgentIdle ==
    /\ project_context = {}
    /\ deployed = FALSE
    /\ api_call = {}
    /\ status_reports = <<>>

LoopIdle ==
    /\ exec_pos = 0
    /\ cycle_log = <<>>

\* performance_patterns = {}: the keys "timing_<type>" and
\* "context_<type>_<category>" are kept apart as two maps
NoPatterns == [timing |-> [k \in {} |-> <<>>], context |-> [k \in {} |-> <<>>]]

PatternIdle ==
    /\ decision_effectiveness = [k \in {} |-> <<>>]
    /\ performance_patterns = NoPatterns
    /\ metrics_call = {}

\* no caller holds a SystemState
SnapIdle == returned_states = <<>>

TaskKinds == {"collector", "alerts", "health", "loop"}
MaxStarts == 1

TasksIdle ==
    /\ is_running = FALSE
    /\ is_monitoring = FALSE
    /\ starts = 0
    /\ task_pc = [k \in TaskKinds |-> [i \in 1..MaxStarts |-> "none"]]
    /\ health_idx = [i \in 1..MaxStarts |-> 0]
    /\ loop_left = [i \in 1..MaxStarts |-> 0]
    /\ cycle_bit = [i \in 1..MaxStarts |-> FALSE]
    /\ after_error = [i \in 1..MaxStarts |-> FALSE]

(***************************************************************************)
(* SpecDecide: make_decisions applied to one SystemState and context.      *)
(***************************************************************************)
InitDecide ==
    /\ now \in NowSamples
    /\ system_state \in SystemStates(now)
    /\ context \in Contexts
    /\ engine_pc = "ready"
    /\ analyzed = NoAnalysis
    /\ decisions = <<>>
    /\ decision_history = <<>>
    /\ config = DefaultConfig
    /\ HealIdle /\ DeployIdle /\ ExecIdle /\ LearnIdle /\ TasksIdle /\ MonitorIdle /\ AgentIdle
    /\ LoopIdle /\ SnapIdle /\ PatternIdle

\* DecisionEngine.make_decisions
MakeDecisions ==
    /\ engine_pc = "ready"
    /\ LET a      == Analyze(system_state, context, now)
           sorted == SortByPriority(Concatenated(a))
       IN /\ analyzed' = a
          /\ decision_history' = PruneHistory(decision_history \o sorted, now)
          /\ decisions' = Limit(sorted)
    /\ engine_pc' = "returned"
    /\ UNCHANGED <<system_state, context, now, config>>
    /\ UNCHANGED <<healVars, deployVars, execVars, learnVars, taskVars, monitorVars,
                 agentVars, loopVars, patternVars, snapVars>>

NextDecide == MakeDecisions

SpecDecide == InitDecide /\ [][NextDecide]_vars

(***************************************************************************)
(* Properties of make_decisions.                                           *)
(***************************************************************************)
Produced == Concatenated(analyzed)

CountWhere(ds, P(_)) == Cardinality({i \in 1..Len(ds) : P(ds[i])})

IsScaleUpComputeHigh(d) ==
    d.action_type = "scale_up" /\ d.target = "compute" /\ d.priority = Priority.HIGH

NumCritical(ds) == CountWhere(ds, LAMBDA d : d.priority = Priority.CRITICAL)

\* C1: the list make_decisions returns has at most 5 decisions, is in
\* non-increasing priority order, is taken from the analyzers' decisions, and no
\* dropped decision has a strictly higher priority than a returned one.
C1_BoundedSortedTopPriority ==
    engine_pc = "returned" =>
        /\ Len(decisions) = Min(5, Len(Produced))
        /\ Len(decisions) <= 5
        /\ \A i \in 1..Len(decisions) - 1 : decisions[i].priority >= decisions[i + 1].priority
        /\ \A i \in 1..Len(decisions) :
              CountWhere(decisions, LAMBDA d : d = decisions[i])
                  <= CountWhere(Produced, LAMBDA d : d = decisions[i])
        /\ \A p \in 1..4 :
              (\E i \in 1..Len(decisions) : decisions[i].priority < p) =>
                  CountWhere(decisions, LAMBDA d : d.priority = p)
                      = CountWhere(Produced, LAMBDA d : d.priority = p)

\* C1 witness: more than 5 decisions were produced, of several priorities, and
\* a decision whose priority equals the lowest returned one was dropped.
C1_Witness ==
    /\ engine_pc = "returned"
    /\ Len(Produced) > 5
    /\ decisions[1].priority > decisions[5].priority
    /\ CountWhere(Produced, LAMBDA d : d.priority = decisions[5].priority)
          > CountWhere(decisions, LAMBDA d : d.priority = decisions[5].priority)

\* C2: for every service whose health flag is false the returned list holds
\* exactly one heal_service decision for that service, and it is CRITICAL.
C2_UnhealthyServiceHealed ==
    engine_pc = "returned" =>
        \A i \in 1..Len(Services) :
            ~system_state.service_health[Services[i]] =>
                /\ CountWhere(decisions, LAMBDA d : d.action_type = "heal_service"
                                                    /\ d.target = Services[i]) = 1
                /\ \A j \in 1..Len(decisions) :
                      (decisions[j].action_type = "heal_service"
                       /\ decisions[j].target = Services[i])
                          => decisions[j].priority = Priority.CRITICAL

\* C2 witness: every service is unhealthy while a rollback and a high-severity
\* security alert compete for the five places.
C2_Witness ==
    /\ engine_pc = "returned"
    /\ \A i \in 1..Len(Services) : ~system_state.service_health[Services[i]]
    /\ NumCritical(Produced) > 5
    /\ system_state.cpu_usage > 80

\* C3 as stated: whenever cpu_usage exceeds 80 the returned list holds a
\* scale_up decision for "compute" at HIGH priority, whatever the other fields.
C3_Original ==
    (engine_pc = "returned" /\ system_state.cpu_usage > 80) =>
        \E i \in 1..Len(decisions) : IsScaleUpComputeHigh(decisions[i])

\* C3 amended: whenever cpu_usage exceeds 80 the performance analyzer produces
\* a scale_up decision for "compute" at HIGH priority, and make_decisions
\* returns it exactly when fewer than 5 CRITICAL decisions were produced.
C3_ScaleUpUnlessCrowdedOut ==
    (engine_pc = "returned" /\ system_state.cpu_usage > 80) =>
        /\ \E i \in 1..Len(analyzed.performance) :
              IsScaleUpComputeHigh(analyzed.performance[i])
        /\ (\E i \in 1..Len(decisions) : IsScaleUpComputeHigh(decisions[i]))
              <=> NumCritical(Produced) < 5

\* C3 witness: cpu above 80 with four CRITICAL decisions ahead of the scale_up,
\* which takes the fifth place.
C3_Witness ==
    /\ engine_pc = "returned"
    /\ system_state.cpu_usage > 80
    /\ NumCritical(Produced) = 4
    /\ Len(Produced) > 5
    /\ IsScaleUpComputeHigh(decisions[5])

HasRollback(ds) ==
    \E i \in 1..Len(ds) : /\ ds[i].action_type = "rollback"
                          /\ ds[i].priority = Priority.CRITICAL
                          /\ ds[i].target = "deployment"
HasRestart(ds) ==
    \E i \in 1..Len(ds) : /\ ds[i].action_type = "restart_service"
                          /\ ds[i].priority = Priority.HIGH
NoneOfType(ds, ty) == \A i \in 1..Len(ds) : ds[i].action_type # ty

\* C4: with error_rate above 5 the health analyzer produces a rollback
\* (CRITICAL, "deployment") and no restart_service when last_deployment is
\* present and less than an hour old, and otherwise a restart_service (HIGH)
\* and no rollback; with error_rate at most 5 it produces neither.
C4_RollbackOrRestart ==
    engine_pc = "returned" =>
        LET h      == analyzed.health
            recent == /\ system_state.last_deployment # {}
                      /\ \A d \in system_state.last_deployment : now - d < 60
        IN /\ (system_state.error_rate > 500 /\ recent)
                 => (HasRollback(h) /\ NoneOfType(h, "restart_service"))
           /\ (system_state.error_rate > 500 /\ ~recent)
                 => (HasRestart(h) /\ NoneOfType(h, "rollback"))
           /\ system_state.error_rate <= 500
                 => (NoneOfType(h, "rollback") /\ NoneOfType(h, "restart_service"))

\* C4 witness: error_rate 10 % five minutes after a deployment gave a rollback.
C4_Witness ==
    /\ engine_pc = "returned"
    /\ system_state.error_rate = 1000
    /\ system_state.last_deployment = {now - 5}
    /\ HasRollback(analyzed.health)

(***************************************************************************)
(* Action Executor: the heal_service handler, one step per suspension      *)
(* point (await self._run_command, await asyncio.sleep(5)).                *)
(***************************************************************************)
MaxAttempts        == 4
DefaultMaxAttempts == 3

\* dict.get(key, default)
Get(d, key, default) == IF key \in DOMAIN d THEN d[key] ELSE default

\* action = decision.parameters.get("action", "restart")
HealAction(d) == Get(d.parameters, "action", "restart")

\* max_attempts = decision.parameters.get("max_attempts", 3)
HealMaxAttempts(d) == Get(d.parameters, "max_attempts", DefaultMaxAttempts)

\* a variant that stops one attempt early
HealAttemptsShort(d) == Max(0, Get(d.parameters, "max_attempts", DefaultMaxAttempts) - 1)

\* for attempt in range(max_attempts)
HealAttempts(d) == HealMaxAttempts(d)

HealParameters ==
    [action : {"restart", "diagnose"}, max_attempts : 0..MaxAttempts]
        \cup [action : {"restart", "diagnose"}]
        \cup [max_attempts : 0..MaxAttempts]
        \cup {[retry |-> TRUE]}

HealInputs ==
    [action_type : {"heal_service"}, priority : {Priority.CRITICAL}, target : {"web", "api"},
     parameters : HealParameters, timestamp : {0}]

InitHeal ==
    /\ heal_decision \in HealInputs
    /\ heal_pc = "ready"
    /\ attempt = 0
    /\ cmd_log = <<>>
    /\ heal_result = {}
    /\ EngineIdle /\ DeployIdle /\ ExecIdle /\ LearnIdle /\ TasksIdle /\ MonitorIdle /\ AgentIdle
    /\ LoopIdle /\ SnapIdle /\ PatternIdle

\* the final return of _execute_heal_service
HealFailure(d) ==
    [success |-> FALSE, target |-> d.target, action |-> HealAction(d),
     attempts |-> HealMaxAttempts(d)]

\* control reaches the top of the for loop with loop variable a
HealIterate(a) ==
    IF a < HealAttempts(heal_decision)
       THEN /\ attempt' = a
            /\ heal_pc' = IF HealAction(heal_decision) = "restart" THEN "command" ELSE "sleep"
            /\ heal_result' = heal_result
       ELSE /\ attempt' = attempt
            /\ heal_pc' = "done"
            /\ heal_result' = {HealFailure(heal_decision)}

\* _execute_heal_service is entered and runs to its first suspension point
HealBegin ==
    /\ heal_pc = "ready"
    /\ HealIterate(0)
    /\ UNCHANGED <<heal_decision, cmd_log>>
    /\ UNCHANGED <<engineVars, deployVars, execVars, learnVars, taskVars, monitorVars,
                 agentVars, loopVars, patternVars, snapVars>>

\* a variant that goes on to the next attempt after a successful command
HealCommandReturnsGoesOn ==
    /\ heal_pc = "command"
    /\ \E success \in BOOLEAN : cmd_log' = Append(cmd_log, success)
    /\ heal_pc' = "sleep"
    /\ UNCHANGED <<heal_decision, attempt, heal_result>>
    /\ UNCHANGED <<engineVars, deployVars, execVars, learnVars, taskVars, monitorVars,
                 agentVars, loopVars, patternVars, snapVars>>

\* await self._run_command("systemctl restart ...") returns (success, output)
HealCommandReturns ==
    /\ heal_pc = "command"
    /\ \E success \in BOOLEAN :
          /\ cmd_log' = Append(cmd_log, success)
          /\ IF success
                THEN /\ heal_pc' = "done"
                     /\ heal_result' = {[success |-> TRUE, target |-> heal_decision.target,
                                         action |-> HealAction(heal_decision),
                                         attempts |-> attempt + 1]}
                ELSE /\ heal_pc' = "sleep"
                     /\ heal_result' = heal_result
    /\ UNCHANGED <<heal_decision, attempt>>
    /\ UNCHANGED <<engineVars, deployVars, execVars, learnVars, taskVars, monitorVars,
                 agentVars, loopVars, patternVars, snapVars>>

\* await asyncio.sleep(5) returns and the for loop goes on
HealSleepReturns ==
    /\ heal_pc = "sleep"
    /\ HealIterate(attempt + 1)
    /\ UNCHANGED <<heal_decision, cmd_log>>
    /\ UNCHANGED <<engineVars, deployVars, execVars, learnVars, taskVars, monitorVars,
                 agentVars, loopVars, patternVars, snapVars>>

NextHeal == HealBegin \/ HealCommandReturns \/ HealSleepReturns

SpecHeal == InitHeal /\ [][NextHeal]_vars

AllFailed(log) == \A i \in 1..Len(log) : ~log[i]

\* C5: with action "restart", max_attempts = N and a command capability that
\* fails on every call, the capability is invoked exactly N times and the
\* handler then returns success=false reporting N attempts; while it runs it
\* never makes more than N calls.
C5_HealExhaustsAttempts ==
    LET N == HealMaxAttempts(heal_decision)
    IN (HealAction(heal_decision) = "restart" /\ AllFailed(cmd_log)) =>
          /\ Len(cmd_log) <= N
          /\ heal_result # {} => heal_pc = "done"
          /\ heal_pc = "done" =>
                /\ Len(cmd_log) = N
                /\ heal_result = {[success |-> FALSE, target |-> heal_decision.target,
                                   action |-> "restart", attempts |-> N]}

\* C5 witness: the default of 3 attempts, three failed commands, failure returned.
C5_Witness ==
    /\ heal_pc = "done"
    /\ "max_attempts" \notin DOMAIN heal_decision.parameters
    /\ HealAction(heal_decision) = "restart"
    /\ cmd_log = <<FALSE, FALSE, FALSE>>
    /\ \E r \in heal_result : ~r.success /\ r.attempts = 3

(***************************************************************************)
(* Action Executor: execute_deployment, one step per awaited stage.        *)
(***************************************************************************)
MaxStages == 3

StageSamples ==
    {[name |-> "source", type |-> "source_control"],
     [name |-> "build", type |-> "build"],
     [name |-> "test", type |-> "test"],
     [name |-> "deploy_production", type |-> "deploy"],
     [name |-> "notify", type |-> "notification"],
     [name |-> "release"]}

\* stage_type = stage["type"]; config = stage["config"]: a stage dict without
\* these keys makes _execute_pipeline_stage raise KeyError before its try block
WellFormed(stage) == "type" \in DOMAIN stage

\* the success flags _execute_pipeline_stage can return for a stage: the source
\* stage always succeeds, an unknown stage type always fails, build commands,
\* tests and deployments can go either way
StageOutcomes(stage) ==
    IF stage.type = "source_control" THEN {TRUE}
    ELSE IF stage.type \in {"build", "test", "security", "deploy"} THEN BOOLEAN
    ELSE {FALSE}

\* a variant that aborts on every failing stage
BreaksAlways(stage, success) == ~success

\* if not stage_result.success: ... if stage["name"] != "deploy_production": break
Breaks(stage, success) == ~success /\ stage.name # "deploy_production"

\* a variant that reports the success of the last stage executed
OverallOfLastStage(overall, success) == success

\* if not stage_result.success: results["overall_success"] = False
OverallAfter(overall, success) == IF success THEN overall ELSE FALSE

InitDeploy ==
    /\ plan \in SeqsUpTo(StageSamples, MaxStages)
    /\ deploy_pc = "ready"
    /\ stage_idx = 1
    /\ stage_results = <<>>
    /\ overall_success = TRUE
    /\ EngineIdle /\ HealIdle /\ ExecIdle /\ LearnIdle /\ TasksIdle /\ MonitorIdle /\ AgentIdle
    /\ LoopIdle /\ SnapIdle /\ PatternIdle

\* execute_deployment is entered: results is built and the for loop awaits
\* the first stage (or ends at once on an empty plan)
DeployBegin ==
    /\ deploy_pc = "ready"
    /\ deploy_pc' = IF Len(plan) = 0 THEN "done" ELSE "stage"
    /\ stage_idx' = 1
    /\ stage_results' = <<>>
    /\ overall_success' = TRUE
    /\ UNCHANGED plan
    /\ UNCHANGED <<engineVars, healVars, execVars, learnVars, taskVars, monitorVars,
                 agentVars, loopVars, patternVars, snapVars>>

\* await self._execute_pipeline_stage(stage) returns; the rest of the loop body
DeployStageReturns ==
    /\ deploy_pc = "stage"
    /\ WellFormed(plan[stage_idx])
    /\ \E success \in StageOutcomes(plan[stage_idx]) :
          /\ stage_results' = Append(stage_results,
                                     [name |-> plan[stage_idx].name, success |-> success])
          /\ overall_success' = OverallAfter(overall_success, success)
          /\ IF Breaks(plan[stage_idx], success) \/ stage_idx = Len(plan)
                THEN deploy_pc' = "done" /\ stage_idx' = stage_idx
                ELSE deploy_pc' = "stage" /\ stage_idx' = stage_idx + 1
    /\ UNCHANGED plan
    /\ UNCHANGED <<engineVars, healVars, execVars, learnVars, taskVars, monitorVars,
                 agentVars, loopVars, patternVars, snapVars>>

\* await self._execute_pipeline_stage(stage) raises: the except branch of
\* execute_deployment records the error and the results are returned
DeployStageRaises ==
    /\ deploy_pc = "stage"
    /\ ~WellFormed(plan[stage_idx])
    /\ deploy_pc' = "error"
    /\ overall_success' = FALSE
    /\ UNCHANGED <<plan, stage_idx, stage_results>>
    /\ UNCHANGED <<engineVars, healVars, execVars, learnVars, taskVars, monitorVars,
                 agentVars, loopVars, patternVars, snapVars>>

NextDeploy == DeployBegin \/ DeployStageReturns \/ DeployStageRaises

SpecDeploy == InitDeploy /\ [][NextDeploy]_vars

\* C6: the stages run in list order; a failing stage not named
\* "deploy_production" is the last one executed, and a failing
\* "deploy_production" stage does not stop the stages after it.
C6_StageOrderAndAbort ==
    /\ Len(stage_results) <= Len(plan)
    /\ \A i \in 1..Len(stage_results) : stage_results[i].name = plan[i].name
    /\ \A i \in 1..Len(stage_results) :
          (~stage_results[i].success /\ stage_results[i].name # "deploy_production")
              => (i = Len(stage_results) /\ deploy_pc = "done")
    /\ deploy_pc = "done" =>
          \/ Len(stage_results) = Len(plan)
          \/ /\ ~stage_results[Len(stage_results)].success
             /\ stage_results[Len(stage_results)].name # "deploy_production"

\* C6 witness: a failing deploy_production was followed by the next stage, and
\* the failing build after it ended the run before the last stage.
C6_Witness ==
    /\ deploy_pc = "done"
    /\ Len(plan) = 3
    /\ stage_results = <<[name |-> "deploy_production", success |-> FALSE],
                         [name |-> "build", success |-> FALSE]>>

(***************************************************************************)
(* Action Executor: execute_action.                                        *)
(***************************************************************************)
MaxExecutions == 2

\* the if/elif chain of execute_action: the handler a decision is dispatched
\* to, "none" when the chain falls through to the else branch
Handler(d) ==
    CASE d.action_type = "scale_up"             -> "_execute_scale_up"
      [] d.action_type = "scale_down"           -> "_execute_scale_down"
      [] d.action_type = "restart_service"      -> "_execute_restart_service"
      [] d.action_type = "rollback"             -> "_execute_rollback"
      [] d.action_type = "heal_service"         -> "_execute_heal_service"
      [] d.action_type = "optimize_performance" -> "_execute_optimize_performance"
      [] d.action_type = "update_security"      -> "_execute_update_security"
      [] d.action_type = "update_config"        -> "_execute_update_config"
      [] OTHER                                  -> "none"

\* What a handler can do when awaited: return a result with success=true,
\* return one with success=false, or raise an Exception.  _execute_rollback
\* and _execute_update_config only sleep and report success; the others
\* report the success flag of the command capability (_run_command).
HandlerBehaviours(h) ==
    IF h \in {"_execute_rollback", "_execute_update_config"}
       THEN {"success", "raise"}
       ELSE {"success", "failure", "raise"}

\* the handlers whose code reaches the command capability (_run_command); the
\* else branch of the dispatch, _execute_rollback and _execute_update_config
\* build their result without it
ReachesRunCommand(h) == h \notin {"none", "_execute_rollback", "_execute_update_config"}

\* a variant without the except clause
ExceptNothing(behaviour) == FALSE

\* except Exception as e: whether the clause catches what the handler raised
ExceptCatches(behaviour) == behaviour = "raise"

\* execute_action(decision) with the handler behaving as given: what the caller
\* gets (a result, or the exception) and what is appended to execution_history
ExecuteActionOutcome(d, behaviour) ==
    LET h == Handler(d)
    IN IF h = "none"
          THEN [raised |-> FALSE,
                result |-> {[success |-> FALSE, message |-> "Unknown action type",
                             action_type |-> d.action_type]}]
       ELSE IF behaviour # "raise"
          THEN [raised |-> FALSE,
                result |-> {[success |-> behaviour = "success", message |-> h,
                             action_type |-> d.action_type]}]
       ELSE IF ExceptCatches(behaviour)
          THEN [raised |-> FALSE,
                result |-> {[success |-> FALSE, message |-> "Action execution failed",
                             action_type |-> d.action_type]}]
       ELSE [raised |-> TRUE, result |-> {}]

ExecDecisions ==
    [action_type : ActionType, priority : {Priority.HIGH}, target : {"compute"},
     parameters : {[action |-> "restart"]}, timestamp : {0}]

InitExec ==
    /\ execution_history = <<>>
    /\ exec_call = {}
    /\ EngineIdle /\ HealIdle /\ DeployIdle /\ LearnIdle /\ TasksIdle /\ MonitorIdle /\ AgentIdle
    /\ LoopIdle /\ SnapIdle /\ PatternIdle

\* ActionExecutor.execute_action, for a decision among ds, while fewer than
\* cap calls have been made
ExecuteActionFrom(ds, cap) ==
    /\ Len(execution_history) < cap
    /\ \E d \in ds :
       \E behaviour \in HandlerBehaviours(Handler(d)) :
          LET out == ExecuteActionOutcome(d, behaviour)
          IN /\ exec_call' = {[decision |-> d, behaviour |-> behaviour,
                               dispatched |-> Handler(d) # "none",
                               ran_command |-> ReachesRunCommand(Handler(d)),
                               history_before |-> execution_history,
                               raised |-> out.raised, result |-> out.result]}
             /\ execution_history' =
                   IF out.result = {} THEN execution_history
                   ELSE execution_history \o <<CHOOSE r \in out.result : TRUE>>
    /\ UNCHANGED <<engineVars, healVars, deployVars, learnVars, taskVars, monitorVars,
                   agentVars, loopVars, patternVars, snapVars>>

\* ActionExecutor.execute_action
ExecuteAction == ExecuteActionFrom(ExecDecisions, MaxExecutions)

NextExec == ExecuteAction

SpecExec == InitExec /\ [][NextExec]_vars

\* C8: execute_action never raises to its caller: for every decision and every
\* behaviour of the handler it returns an ExecutionResult, and a handler that
\* fails or raises gives a result with success=false.
C8_ExecuteActionNeverRaises ==
    \A c \in exec_call :
        /\ ~c.raised
        /\ Cardinality(c.result) = 1
        /\ (c.dispatched /\ c.behaviour \in {"failure", "raise"})
              => \A r \in c.result : ~r.success
        /\ (c.dispatched /\ c.behaviour = "success")
              => \A r \in c.result : r.success

\* C8 witness: a handler raised and the caller got a failed result.
C8_Witness ==
    \E c \in exec_call :
        /\ c.dispatched /\ c.behaviour = "raise" /\ ~c.raised
        /\ \E r \in c.result : ~r.success /\ r.message = "Action execution failed"

(***************************************************************************)
(* Learning Module: update_from_actions with the built-in simulation.      *)
(***************************************************************************)
ThresholdCap == 50
MaxOutcomes  == 3
MaxBatch     == 2

\* the random draws of _simulate_system_state_after_action for one decision:
\* the CPU change and the response-time change (the ends of the uniform ranges)
Draws(action_type) ==
    CASE action_type = "scale_up"   -> [cpu : {10, 25}, rt : {200, 800}, err : {0}]
      [] action_type = "scale_down" -> [cpu : {5, 15}, rt : {0}, err : {0}]
      [] action_type = "restart_service" -> [cpu : {0}, rt : {300, 1000}, err : {200, 500}]
      [] OTHER -> [cpu : {0}, rt : {0}, err : {0}]

\* _simulate_system_state_after_action (the metrics of the after-state that the
\* scale and restart actions change)
SimulateAfter(action_type, before, draw) ==
    CASE action_type = "scale_up" ->
            [before EXCEPT !.cpu_usage = Max(10, before.cpu_usage - draw.cpu),
                           !.response_time = Max(100, before.response_time - draw.rt)]
      [] action_type = "scale_down" ->
            [before EXCEPT !.cpu_usage = Min(100, before.cpu_usage + draw.cpu)]
      [] action_type = "restart_service" ->
            [before EXCEPT !.error_rate = Max(0, before.error_rate - draw.err),
                           !.response_time = Max(100, before.response_time - draw.rt)]
      [] OTHER -> before

HealthyCount(state) == Cardinality({s \in DOMAIN state.service_health : state.service_health[s]})

\* a variant that also scores an improvement of exactly 0
OverallEffectivenessNonStrict(before, after) ==
      (IF before.cpu_usage - after.cpu_usage >= 0 THEN 3 ELSE 0)
    + (IF before.response_time - after.response_time >= 0 THEN 3 ELSE 0)
    + (IF before.error_rate - after.error_rate >= 0 THEN 2 ELSE 0)
    + (IF HealthyCount(after) - HealthyCount(before) >= 0 THEN 2 ELSE 0)

\* _calculate_outcome_metrics: metrics['overall_effectiveness'], in tenths
OverallEffectiveness(before, after) ==
      (IF before.cpu_usage - after.cpu_usage > 0 THEN 3 ELSE 0)
    + (IF before.response_time - after.response_time > 0 THEN 3 ELSE 0)
    + (IF before.error_rate - after.error_rate > 0 THEN 2 ELSE 0)
    + (IF HealthyCount(after) - HealthyCount(before) > 0 THEN 2 ELSE 0)

\* _simulate_action_outcome: the fields of the ActionOutcome the threshold
\* learning reads
SimulateOutcome(action_type, before, draw) ==
    [action_type |-> action_type,
     cpu_before |-> before.cpu_usage,
     effectiveness |-> OverallEffectiveness(before, SimulateAfter(action_type, before, draw))]

LastN(seq, n) == IF Len(seq) > n THEN SubSeq(seq, Len(seq) - n + 1, Len(seq)) ELSE seq

\* a variant that never evicts
KeepAll(samples) == samples

\* if len(...) > 50: list[:] = list[-50:]
KeepRecent(samples) == LastN(samples, ThresholdCap)

\* if effectiveness > 0.5
Effective(effectiveness) == effectiveness > 5

ThresholdKey(action_type) ==
    IF action_type = "scale_up" THEN "scale_up_cpu_threshold" ELSE "scale_down_cpu_threshold"

\* a function with key k set to v, the key added when missing
Put(f, k, v) == [x \in DOMAIN f \cup {k} |-> IF x = k THEN v ELSE f[x]]

\* _learn_optimal_thresholds
LearnOptimalThresholds(lt, outcome) ==
    IF outcome.action_type \in {"scale_up", "scale_down"}
       THEN LET key     == ThresholdKey(outcome.action_type)
                current == IF key \in DOMAIN lt THEN lt[key] ELSE <<>>
            IN IF Effective(outcome.effectiveness)
                  THEN Put(lt, key, KeepRecent(Append(current, outcome.cpu_before)))
                  ELSE Put(lt, key, current)
       ELSE lt

\* the for loop of update_from_actions over decisions[i..], every decision
\* with the same before-state, draws[i] being the random draws of decision i
RECURSIVE LearnFrom(_, _, _, _, _)
LearnFrom(lt, types, before, draws, i) ==
    IF i > Len(types) THEN lt
    ELSE LearnFrom(LearnOptimalThresholds(lt, SimulateOutcome(types[i], before, draws[i])),
                   types, before, draws, i + 1)

LearnStates ==
    [cpu_usage : {10, 85, 90}, memory_usage : {50}, disk_usage : {35},
     response_time : {100, 2500}, error_rate : {150}, 
     service_health : {NoState.service_health}, alerts : {<<>>}, last_deployment : {{}}]

LearnActionTypes == {"scale_up", "scale_down", "restart_service"}

\* the learning state after n effective scale_up outcomes at 85 % CPU
Warm(n) ==
    [thresholds |-> IF n = 0 THEN [k \in {} |-> <<>>]
                    ELSE [k \in {"scale_up_cpu_threshold"} |-> [i \in 1..n |-> 85]],
     log |-> [i \in 1..n |-> [action_type |-> "scale_up", cpu_before |-> 85,
                              effectiveness |-> 6]]]

InitLearn ==
    /\ \E n \in {0, ThresholdCap - 1} :
          /\ learned_thresholds = Warm(n).thresholds
          /\ outcome_log = Warm(n).log
    /\ recommendation = {}
    /\ EngineIdle /\ HealIdle /\ DeployIdle /\ ExecIdle /\ TasksIdle /\ MonitorIdle /\ AgentIdle
    /\ LoopIdle /\ SnapIdle /\ PatternIdle

\* the number of outcomes fed since the initial state
Fed == IF Len(outcome_log) >= ThresholdCap - 1
          THEN Len(outcome_log) - (ThresholdCap - 1) ELSE Len(outcome_log)

\* the random draws of a batch: one draw per decision, of its action type
RECURSIVE DrawSeqs(_)
DrawSeqs(types) ==
    IF types = <<>> THEN {<<>>}
    ELSE {<<d>> \o rest : d \in Draws(Head(types)), rest \in DrawSeqs(Tail(types))}

\* LearningModule.update_from_actions(decisions, system_state)
UpdateFromActions ==
    \E types \in SeqsUpTo(LearnActionTypes, MaxBatch) :
       /\ Len(types) > 0
       /\ Fed + Len(types) <= MaxOutcomes
       /\ \E before \in LearnStates :
          \E draws \in DrawSeqs(types) :
             /\ learned_thresholds' = LearnFrom(learned_thresholds, types, before, draws, 1)
             /\ outcome_log' = outcome_log \o
                   [i \in 1..Len(types) |-> SimulateOutcome(types[i], before, draws[i])]
       /\ UNCHANGED recommendation
       /\ UNCHANGED <<engineVars, healVars, deployVars, execVars, taskVars, monitorVars,
                 agentVars, loopVars, patternVars, snapVars>>

NextLearn == UpdateFromActions

SpecLearn == InitLearn /\ [][NextLearn]_vars

\* the before-state CPU values of the outcomes of an action type whose
\* effectiveness exceeded 0.5, in arrival order
EffectiveCpu(log, action_type) ==
    LET kept == SelectSeq(log, LAMBDA o : o.action_type = action_type /\ o.effectiveness > 5)
    IN [i \in 1..Len(kept) |-> kept[i].cpu_before]

\* C7: learned_thresholds["<action>_cpu_threshold"] holds exactly the
\* before-state CPU values of the outcomes of that action whose effectiveness
\* was strictly greater than 0.5, in arrival order, restricted to the most
\* recent 50; it never holds more than 50 entries.
C7_LearnedThresholdSamples ==
    \A a \in {"scale_up", "scale_down"} :
        LET key      == ThresholdKey(a)
            expected == LastN(EffectiveCpu(outcome_log, a), 50)
        IN IF key \in DOMAIN learned_thresholds
              THEN /\ learned_thresholds[key] = expected
                   /\ Len(learned_thresholds[key]) <= 50
              ELSE \A i \in 1..Len(outcome_log) : outcome_log[i].action_type # a

\* C7 witness: more than 50 effective scale_up outcomes arrived, with an
\* ineffective one among them, and the list holds the 50 most recent values.
C7_Witness ==
    /\ "scale_up_cpu_threshold" \in DOMAIN learned_thresholds
    /\ Len(EffectiveCpu(outcome_log, "scale_up")) = 51
    /\ \E i \in 1..Len(outcome_log) :
          /\ outcome_log[i].action_type = "scale_up"
          /\ outcome_log[i].effectiveness = 3
    /\ Len(learned_thresholds["scale_up_cpu_threshold"]) = 50
    /\ learned_thresholds["scale_up_cpu_threshold"][50] = 90

(***************************************************************************)
(* The periodic tasks.  Every start_monitoring call creates one instance   *)
(* of each task; a task takes one step per suspension point (asyncio runs  *)
(* a coroutine without interruption from one await to the next).           *)
(*   "none"     the instance does not exist                                *)
(*   "created"  asyncio.create_task was called, the coroutine has not run  *)
(*   "sleep"    awaiting the sleep that ends a completed iteration         *)
(*   "backoff"  awaiting asyncio.sleep(10) in the except branch            *)
(*   "check"    (health) awaiting _check_service_health_individual         *)
(*   "exec"     (loop) awaiting action_executor.execute_action             *)
(*   "exited"   the while loop ended and the coroutine returned            *)
(***************************************************************************)
MaxCycleDecisions == 2

Instances == 1..MaxStarts

AtLoopTest(pc) == pc \in {"created", "sleep", "backoff"}

\* a variant whose loop never tests the flag
LoopsForever(flag) == TRUE

\* while self.is_monitoring: / while self.is_running:
KeepsLooping(flag) == flag

\* a variant whose except branch leaves the loop
ExitOnError == "exited"

\* except Exception as e: log, await asyncio.sleep(10), and go round again
OnError == "backoff"

SetPc(kind, i, pc) == task_pc' = [task_pc EXCEPT ![kind][i] = pc]

InitTasks ==
    /\ TasksIdle
    /\ EngineIdle /\ HealIdle /\ DeployIdle /\ ExecIdle /\ LearnIdle /\ MonitorIdle /\ AgentIdle
    /\ LoopIdle /\ SnapIdle /\ PatternIdle

\* DevOpsAgent.start_monitoring past its precondition, including
\* MonitoringSystem.start_monitoring: both flags go true and four tasks are created
StartMonitoringBody ==
    /\ starts < MaxStarts
    /\ starts' = starts + 1
    /\ is_running' = TRUE
    /\ is_monitoring' = TRUE
    /\ task_pc' = [k \in TaskKinds |-> [task_pc[k] EXCEPT ![starts + 1] = "created"]]
    /\ UNCHANGED <<health_idx, loop_left, cycle_bit, after_error>>
    /\ UNCHANGED <<engineVars, healVars, deployVars, execVars, learnVars, monitorVars,
                   loopVars, patternVars, snapVars>>

\* DevOpsAgent.start_monitoring (project_context being set)
StartMonitoring ==
    /\ StartMonitoringBody
    /\ UNCHANGED agentVars

\* DevOpsAgent.stop, including MonitoringSystem.stop
Stop ==
    /\ is_running' = FALSE
    /\ is_monitoring' = FALSE
    /\ UNCHANGED <<starts, task_pc, health_idx, loop_left, cycle_bit, after_error>>
    /\ UNCHANGED <<engineVars, healVars, deployVars, execVars, learnVars, monitorVars,
                 agentVars, loopVars, patternVars, snapVars>>

\* MonitoringSystem._collect_metrics: the loop test and one iteration, up to
\* the sleep that ends it
CollectorStep(i) ==
    /\ AtLoopTest(task_pc["collector"][i])
    /\ IF ~KeepsLooping(is_monitoring)
          THEN SetPc("collector", i, "exited")
          ELSE \E raised \in BOOLEAN :
                  SetPc("collector", i, IF raised THEN OnError ELSE "sleep")
    /\ UNCHANGED <<is_running, is_monitoring, starts, health_idx, loop_left, cycle_bit,
                   after_error>>
    /\ UNCHANGED <<engineVars, healVars, deployVars, execVars, learnVars, monitorVars,
                 agentVars, loopVars, patternVars, snapVars>>

\* MonitoringSystem._check_alerts: the loop test and one iteration, up to the
\* sleep that ends it
AlertsStep(i) ==
    /\ AtLoopTest(task_pc["alerts"][i])
    /\ IF ~KeepsLooping(is_monitoring)
          THEN SetPc("alerts", i, "exited")
          ELSE \E raised \in BOOLEAN :
                  SetPc("alerts", i, IF raised THEN OnError ELSE "sleep")
    /\ UNCHANGED <<is_running, is_monitoring, starts, health_idx, loop_left, cycle_bit,
                   after_error>>
    /\ UNCHANGED <<engineVars, healVars, deployVars, execVars, learnVars, monitorVars,
                 agentVars, loopVars, patternVars, snapVars>>

\* MonitoringSystem._health_checks: the loop test and the start of a pass, up
\* to the await of the first service's check
HealthStep(i) ==
    /\ AtLoopTest(task_pc["health"][i])
    /\ IF ~KeepsLooping(is_monitoring)
          THEN SetPc("health", i, "exited") /\ UNCHANGED health_idx
          ELSE SetPc("health", i, "check") /\ health_idx' = [health_idx EXCEPT ![i] = 1]
    /\ UNCHANGED <<is_running, is_monitoring, starts, loop_left, cycle_bit, after_error>>
    /\ UNCHANGED <<engineVars, healVars, deployVars, execVars, learnVars, monitorVars,
                 agentVars, loopVars, patternVars, snapVars>>

\* await self._check_service_health_individual(service) returns or raises;
\* the pass goes on to the next service or to the sleep that ends it
HealthCheckReturns(i) ==
    /\ task_pc["health"][i] = "check"
    /\ \E raised \in BOOLEAN :
          IF raised
             THEN SetPc("health", i, OnError) /\ health_idx' = [health_idx EXCEPT ![i] = 0]
          ELSE IF health_idx[i] < Len(Services)
             THEN UNCHANGED task_pc /\ health_idx' = [health_idx EXCEPT ![i] = @ + 1]
          ELSE SetPc("health", i, "sleep") /\ health_idx' = [health_idx EXCEPT ![i] = 0]
    /\ UNCHANGED <<is_running, is_monitoring, starts, loop_left, cycle_bit, after_error>>
    /\ UNCHANGED <<engineVars, healVars, deployVars, execVars, learnVars, monitorVars,
                 agentVars, loopVars, patternVars, snapVars>>

\* DevOpsAgent._autonomous_decision_loop: the loop test and the start of a
\* cycle: fetch the state and decide (either may raise); with n decisions the
\* loop awaits the execution of the first one, with none it learns and sleeps
LoopStep(i) ==
    /\ AtLoopTest(task_pc["loop"][i])
    /\ IF ~KeepsLooping(is_running)
          THEN /\ SetPc("loop", i, "exited")
               /\ UNCHANGED <<loop_left, cycle_bit, after_error>>
          ELSE /\ cycle_bit' = [cycle_bit EXCEPT ![i] = ~@]
               /\ \/ /\ SetPc("loop", i, OnError)
                     /\ UNCHANGED <<loop_left, after_error>>
                  \/ /\ SetPc("loop", i, "sleep")
                     /\ UNCHANGED <<loop_left, after_error>>
                  \/ \E n \in 1..MaxCycleDecisions :
                        /\ SetPc("loop", i, "exec")
                        /\ loop_left' = [loop_left EXCEPT ![i] = n]
                        /\ after_error' =
                              [after_error EXCEPT ![i] = task_pc["loop"][i] = "backoff"]
    /\ UNCHANGED <<is_running, is_monitoring, starts, health_idx>>
    /\ UNCHANGED <<engineVars, healVars, deployVars, execVars, learnVars, monitorVars,
                 agentVars, loopVars, patternVars, snapVars>>

\* await self.action_executor.execute_action(decision) returns: the next
\* decision is executed, or after the last one the cycle learns and sleeps; an
\* exception in any of these abandons the cycle
LoopExecReturns(i) ==
    /\ task_pc["loop"][i] = "exec"
    /\ \/ /\ loop_left[i] > 1
          /\ loop_left' = [loop_left EXCEPT ![i] = @ - 1]
          /\ UNCHANGED <<task_pc, after_error>>
       \/ /\ loop_left[i] = 1
          /\ SetPc("loop", i, "sleep")
          /\ loop_left' = [loop_left EXCEPT ![i] = 0]
          /\ after_error' = [after_error EXCEPT ![i] = FALSE]
       \/ /\ SetPc("loop", i, OnError)
          /\ loop_left' = [loop_left EXCEPT ![i] = 0]
          /\ after_error' = [after_error EXCEPT ![i] = FALSE]
    /\ UNCHANGED <<is_running, is_monitoring, starts, health_idx, cycle_bit>>
    /\ UNCHANGED <<engineVars, healVars, deployVars, execVars, learnVars, monitorVars,
                 agentVars, loopVars, patternVars, snapVars>>

TaskStep(i) ==
    \/ CollectorStep(i)
    \/ AlertsStep(i)
    \/ HealthStep(i)
    \/ HealthCheckReturns(i)
    \/ LoopStep(i)
    \/ LoopExecReturns(i)

NextTasks ==
    \/ StartMonitoring
    \/ Stop
    \/ \E i \in Instances : TaskStep(i)

\* The event loop runs every task whose await has completed, every sleep ends
\* and every awaited call returns: each task step is weakly fair.
TaskFairness ==
    \A i \in Instances :
        /\ WF_vars(CollectorStep(i))
        /\ WF_vars(AlertsStep(i))
        /\ WF_vars(HealthStep(i))
        /\ WF_vars(HealthCheckReturns(i))
        /\ WF_vars(LoopStep(i))
        /\ WF_vars(LoopExecReturns(i))

SpecTasks == InitTasks /\ [][NextTasks]_vars /\ TaskFairness

\* C9: the decision loop leaves its while loop only when is_running is false;
\* a step that raises abandons the cycle (nothing of it is left to execute)
\* and backs off, and from the backoff another cycle always begins unless the
\* flag has been set false.
C9_LoopSurvivesErrors ==
    /\ [][\A i \in Instances :
             /\ (task_pc'["loop"][i] = "exited" /\ task_pc["loop"][i] # "exited")
                   => (~is_running /\ AtLoopTest(task_pc["loop"][i]))
             /\ task_pc'["loop"][i] = "backoff" => loop_left'[i] = 0]_vars
    /\ \A i \in Instances : \A b \in BOOLEAN :
          (task_pc["loop"][i] = "backoff" /\ cycle_bit[i] = b)
              ~> (cycle_bit[i] # b \/ ~is_running)

\* C9 witness: the loop is executing the decisions of a cycle that began
\* after a backoff, the flag still true.
C9_Witness ==
    \E i \in Instances :
        /\ task_pc["loop"][i] = "exec"
        /\ after_error[i]
        /\ is_running

AllExited == \A k \in TaskKinds : \A i \in Instances : task_pc[k][i] \in {"none", "exited"}

\* C10: once stop() has set both flags false, every periodic task exits unless
\* a start is issued again; a task waiting in a sleep (the one ending an
\* iteration or the backoff) when the flag is false exits at its next step.
C10_TasksExitAfterStop ==
    /\ (~is_running /\ ~is_monitoring) ~> (AllExited \/ is_running \/ is_monitoring)
    /\ [][\A i \in Instances :
             /\ \A k \in TaskKinds \ {"loop"} :
                   (~is_monitoring /\ AtLoopTest(task_pc[k][i]) /\ task_pc'[k][i] # task_pc[k][i]
                      /\ task_pc[k][i] # "none")
                       => task_pc'[k][i] = "exited"
             /\ (~is_running /\ AtLoopTest(task_pc["loop"][i])
                   /\ <<task_pc'["loop"][i], cycle_bit'[i]>> # <<task_pc["loop"][i], cycle_bit[i]>>)
                       => task_pc'["loop"][i] = "exited"]_vars

\* C10 witness: after a start and a stop all four tasks have exited.
C10_Witness ==
    /\ starts > 0
    /\ ~is_running /\ ~is_monitoring
    /\ \A k \in TaskKinds : task_pc[k][1] = "exited"

(***************************************************************************)
(* SpecGate: make_decisions under every setting of the configuration       *)
(* switches auto_scale and auto_heal.                                      *)
(***************************************************************************)
GateStates(t) ==
    [cpu_usage : {15, 50, 85}, memory_usage : {25, 90}, disk_usage : {35},
     response_time : {800}, error_rate : {150},
     service_health : [{Services[i] : i \in 1..Len(Services)} -> BOOLEAN],
     alerts : {<<>>},
     last_deployment : {{t - 120}}]

InitGate ==
    /\ now = 2160
    /\ system_state \in GateStates(now)
    /\ context = [project_type |-> "python", caching |-> FALSE]
    /\ engine_pc = "ready"
    /\ analyzed = NoAnalysis
    /\ decisions = <<>>
    /\ decision_history = <<>>
    /\ config \in Configs
    /\ HealIdle /\ DeployIdle /\ ExecIdle /\ LearnIdle /\ TasksIdle /\ MonitorIdle /\ AgentIdle
    /\ LoopIdle /\ SnapIdle /\ PatternIdle

NextGate == MakeDecisions

SpecGate == InitGate /\ [][NextGate]_vars

\* C11: with auto_scale false make_decisions returns no scale_up and no
\* scale_down decision, and with auto_heal false it returns no heal_service
\* decision.
C11_SwitchesGateAnalyzers ==
    engine_pc = "returned" =>
        /\ ~config.auto_scale =>
              (NoneOfType(decisions, "scale_up") /\ NoneOfType(decisions, "scale_down"))
        /\ ~config.auto_heal => NoneOfType(decisions, "heal_service")

(***************************************************************************)
(* SpecCycle: consecutive cycles of the decision loop as far as the        *)
(* Decision Engine and the Learning Module are concerned: fetch the state, *)
(* decide, learn from the decisions made.                                  *)
(***************************************************************************)
RECURSIVE Sum(_)
Sum(seq) == IF seq = <<>> THEN 0 ELSE Head(seq) + Sum(Tail(seq))

\* threshold_key = f"{action_type}_cpu_threshold"
RecommendationKey(action_type) ==
    CASE action_type = "scale_up"   -> "scale_up_cpu_threshold"
      [] action_type = "scale_down" -> "scale_down_cpu_threshold"
      [] OTHER                      -> "other_cpu_threshold"

\* a variant that looks up the scale_up samples whatever the action type
SuggestedThresholdOfScaleUp(lt, action_type) ==
    LET key == "scale_up_cpu_threshold"
    IN IF key \in DOMAIN lt /\ lt[key] # <<>>
          THEN {[sum |-> Sum(lt[key]), n |-> Len(lt[key])]}
          ELSE {}

\* recommendations['suggested_threshold'] of get_decision_recommendations:
\* None, or sum(thresholds) / len(thresholds) kept as the pair (sum, n)
SuggestedThreshold(lt, action_type) ==
    LET key == RecommendationKey(action_type)
    IN IF key \in DOMAIN lt /\ lt[key] # <<>>
          THEN {[sum |-> Sum(lt[key]), n |-> Len(lt[key])]}
          ELSE {}

\* the states get_system_state hands to the loop (last_deployment is always
\* two hours before the call)
CycleStates(t) ==
    [cpu_usage : {50, 85, 95}, memory_usage : {50}, disk_usage : {35},
     response_time : {800, 2500}, error_rate : {150, 1000},
     service_health : {NoState.service_health}, alerts : {<<>>},
     last_deployment : {{t - 120}}]

InitCycle ==
    /\ now = 2160
    /\ system_state = NoState
    /\ context = [project_type |-> "python", caching |-> FALSE]
    /\ engine_pc = "fetch"
    /\ analyzed = NoAnalysis
    /\ decisions = <<>>
    /\ decision_history = <<>>
    /\ config = DefaultConfig
    /\ LearnIdle
    /\ HealIdle /\ DeployIdle /\ ExecIdle /\ TasksIdle /\ MonitorIdle /\ AgentIdle
    /\ LoopIdle /\ SnapIdle /\ PatternIdle

\* system_state = await self.monitoring_system.get_system_state()
CycleFetch ==
    /\ engine_pc = "fetch"
    /\ system_state' \in CycleStates(now)
    /\ engine_pc' = "ready"
    /\ UNCHANGED <<context, now, analyzed, decisions, decision_history, config>>
    /\ UNCHANGED <<healVars, deployVars, execVars, learnVars, taskVars, monitorVars,
                   agentVars, loopVars, patternVars, snapVars>>

ActionTypesOf(ds) == [i \in 1..Len(ds) |-> ds[i].action_type]

\* await self.learning_module.update_from_actions(decisions, system_state)
CycleLearn ==
    /\ engine_pc = "returned"
    /\ Len(outcome_log) + Len(decisions) <= MaxOutcomes
    /\ LET types == ActionTypesOf(decisions)
       IN \E draws \in DrawSeqs(types) :
             /\ learned_thresholds' =
                   LearnFrom(learned_thresholds, types, system_state, draws, 1)
             /\ outcome_log' = outcome_log \o
                   [i \in 1..Len(types) |-> SimulateOutcome(types[i], system_state, draws[i])]
    /\ UNCHANGED recommendation
    /\ engine_pc' = "fetch"
    /\ UNCHANGED <<system_state, context, now, analyzed, decisions, decision_history, config>>
    /\ UNCHANGED <<healVars, deployVars, execVars, taskVars, monitorVars, agentVars,
                   loopVars, patternVars, snapVars>>

NextCycle == CycleFetch \/ MakeDecisions \/ CycleLearn

SpecCycle == InitCycle /\ [][NextCycle]_vars

\* C12: what the Learning Module learned in earlier cycles is read at the
\* start of the next cycle and overrides the fixed threshold: once scale_up
\* CPU samples exist, the cycle's CPU rule compares cpu_usage against their
\* mean, so a scale_up (compute, HIGH) is produced exactly when cpu_usage
\* exceeds that mean.
C12_LearnedThresholdOverrides ==
    engine_pc = "returned" =>
        \A s \in SuggestedThreshold(learned_thresholds, "scale_up") :
            (\E i \in 1..Len(Produced) : IsScaleUpComputeHigh(Produced[i]))
                <=> system_state.cpu_usage * s.n > s.sum

\* C13: every action type a Decision can carry is dispatched to a handler; the
\* "Unknown action type" result is produced only for values outside ActionType.
C13_EveryActionTypeHasHandler ==
    \A c \in exec_call :
        c.decision.action_type \in ActionType =>
            /\ c.dispatched
            /\ \A r \in c.result : r.message # "Unknown action type"

\* C14: a decision whose action type has no handler gets a result with
\* success=false and the call has no side effect: the command capability is
\* not invoked and execution_history is what it was before the call.
C14_NoHandlerNoSideEffect ==
    \A c \in exec_call :
        ~c.dispatched =>
            /\ \A r \in c.result : ~r.success
            /\ c.result # {}
            /\ ~c.ran_command
            /\ execution_history = c.history_before

(***************************************************************************)
(* SpecHistory: a long run of execute_action calls.                        *)
(***************************************************************************)
MaxHistoryCalls   == 11
HistoryReportSize == 10

HistoryDecisions ==
    [action_type : {"update_config"}, priority : {Priority.MEDIUM}, target : {"compute"},
     parameters : {[action |-> "restart"]}, timestamp : {0}]

\* ActionExecutor.get_execution_history: the results reported
GetExecutionHistory(history) == LastN(history, HistoryReportSize)

InitHistory == InitExec

ExecuteActionAgain == ExecuteActionFrom(HistoryDecisions, MaxHistoryCalls)

NextHistory == ExecuteActionAgain

SpecHistory == InitHistory /\ [][NextHistory]_vars

\* C15: the executor retains at most the last 10 results: after any sequence
\* of execute_action calls execution_history holds at most 10 entries, the
\* most recent ones in execution order.
C15_HistoryCappedAtTen ==
    /\ Len(execution_history) <= HistoryReportSize
    /\ \A c \in exec_call :
          execution_history = LastN(c.history_before \o <<CHOOSE r \in c.result : TRUE>>,
                                    HistoryReportSize)

(***************************************************************************)
(* SpecAlerts: the alert set of the Monitoring System under the passes of  *)
(* the alert checker and of the health checker, as time goes by.           *)
(***************************************************************************)
MaxAlertsHeld == 2
MaxClock      == 70
AlertTtl      == 60

\* the elapsed time between two steps, in minutes
TickSteps == {30, 35}

\* the alert lists one alert-check pass can raise (new_alerts), by kind
NewAlertKinds == {<<>>, <<"cpu">>, <<"cpu", "security">>}

HealthMessage(service) ==
    CASE service = "web"      -> "Service web is unhealthy"
      [] service = "api"      -> "Service api is unhealthy"
      [] service = "database" -> "Service database is unhealthy"
      [] service = "cache"    -> "Service cache is unhealthy"
      [] service = "queue"    -> "Service queue is unhealthy"

\* the alert _health_checks appends for an unhealthy service
HealthAlert(service, t) ==
    [id |-> "health-alert", type |-> "health", severity |-> "critical",
     message |-> HealthMessage(service), timestamp |-> t]

\* a variant that keeps alerts for two hours
FreshTwoHours(alert, t) == alert.timestamp > t - 2 * AlertTtl

\* datetime.fromisoformat(alert["timestamp"]) > cutoff_time, the cutoff being
\* one hour before now
Fresh(alert, t) == alert.timestamp > t - AlertTtl

\* self.current_alerts = [alert for alert in self.current_alerts if ...]
PruneAlerts(alerts, t) == SelectSeq(alerts, LAMBDA a : Fresh(a, t))

\* a variant in which the returned state refers to self.current_alerts itself
SameList(list) == [items |-> list, is_current_alerts |-> TRUE]

\* list.copy(): a new list object holding the same items; is_current_alerts tells
\* whether the list object is the one self.current_alerts is bound to
CopyOfList(list) == [items |-> list, is_current_alerts |-> FALSE]

\* self.current_alerts.extend(new_alerts) and self.current_alerts.append(alert)
\* change the list object in place: every holder of that object sees the items
Extended(states, new_alerts) ==
    [i \in DOMAIN states |->
        IF states[i].alerts.is_current_alerts
           THEN [states[i] EXCEPT !.alerts.items = @ \o new_alerts]
           ELSE states[i]]

\* self.current_alerts = [...] binds the attribute to a new list object; the old
\* object stays as it is with whoever holds it
Rebound(states) ==
    [i \in DOMAIN states |-> [states[i] EXCEPT !.alerts.is_current_alerts = FALSE]]

InitAlerts ==
    /\ MonitorIdle
    /\ EngineIdle /\ HealIdle /\ DeployIdle /\ ExecIdle /\ LearnIdle /\ TasksIdle /\ AgentIdle
    /\ LoopIdle /\ SnapIdle /\ PatternIdle

\* time passes
Tick ==
    /\ \E d \in TickSteps :
          /\ clock + d <= MaxClock
          /\ clock' = clock + d
    /\ pass_log' = {}
    /\ UNCHANGED <<current_alerts, health_pass>>
    /\ UNCHANGED <<engineVars, healVars, deployVars, execVars, learnVars, taskVars,
                   agentVars, loopVars, patternVars, snapVars>>

\* one iteration of MonitoringSystem._check_alerts up to its sleep: raise the
\* new alerts, then drop the alerts older than one hour
AlertCheckPass ==
    /\ \E kinds \in NewAlertKinds :
          LET new_alerts == [i \in 1..Len(kinds) |-> AlertOfKind(kinds[i], clock)]
          IN /\ Len(current_alerts) + Len(new_alerts) <= MaxAlertsHeld
             /\ current_alerts' = PruneAlerts(current_alerts \o new_alerts, clock)
             /\ returned_states' = Rebound(Extended(returned_states, new_alerts))
             /\ pass_log' = {[before |-> current_alerts, new |-> new_alerts, at |-> clock]}
    /\ UNCHANGED <<clock, health_pass>>
    /\ UNCHANGED <<engineVars, healVars, deployVars, execVars, learnVars, taskVars,
                   agentVars, loopVars, patternVars>>

\* MonitoringSystem._health_checks: a pass begins with the first service
HealthPassBegin ==
    /\ health_pass.ended # "running"
    /\ health_pass' = [idx |-> 1, ended |-> "running"]
    /\ pass_log' = {}
    /\ UNCHANGED <<clock, current_alerts>>
    /\ UNCHANGED <<engineVars, healVars, deployVars, execVars, learnVars, taskVars,
                   agentVars, loopVars, patternVars, snapVars>>

\* the try block encloses the whole for loop: an error in one check leaves the
\* loop for the except branch
AfterCheckError(idx) == [idx |-> idx, ended |-> "error"]

\* await self._check_service_health_individual(service) returns healthy or
\* unhealthy, or raises; an unhealthy service gets its alert
HealthCheck ==
    /\ health_pass.ended = "running"
    /\ LET service == Services[health_pass.idx]
           next    == [idx |-> health_pass.idx + 1,
                       ended |-> IF health_pass.idx < Len(Services)
                                    THEN "running" ELSE "completed"]
       IN \/ /\ health_pass' = next
             /\ UNCHANGED <<current_alerts, returned_states>>
          \/ /\ Len(current_alerts) < MaxAlertsHeld
             /\ current_alerts' = Append(current_alerts, HealthAlert(service, clock))
             /\ returned_states' = Extended(returned_states, <<HealthAlert(service, clock)>>)
             /\ health_pass' = next
          \/ /\ health_pass' = AfterCheckError(health_pass.idx)
             /\ UNCHANGED <<current_alerts, returned_states>>
    /\ pass_log' = {}
    /\ UNCHANGED clock
    /\ UNCHANGED <<engineVars, healVars, deployVars, execVars, learnVars, taskVars,
                   agentVars, loopVars, patternVars>>

NextAlerts == Tick \/ AlertCheckPass \/ HealthPassBegin \/ HealthCheck

SpecAlerts == InitAlerts /\ [][NextAlerts]_vars

Count(seq, x) == Cardinality({i \in 1..Len(seq) : seq[i] = x})

Elements(seq) == {seq[i] : i \in 1..Len(seq)}

\* C16: right after an alert-check pass the alert set holds no alert stamped
\* more than one hour before the pass, whoever raised it, and every alert
\* younger than one hour that was there before the pass or was raised by it
\* is still there.
C16_PassPrunesOldAlerts ==
    \A p \in pass_log :
        /\ \A a \in Elements(current_alerts) : ~(a.timestamp < p.at - AlertTtl)
        /\ \A a \in Elements(p.before \o p.new) :
              a.timestamp > p.at - AlertTtl
                  => Count(current_alerts, a) = Count(p.before \o p.new, a)

\* C16 witness: a pass has just removed an alert of the health checker that
\* was older than one hour and kept a younger alert of the alert checker.
C16_Witness ==
    \E p \in pass_log :
        /\ \E a \in Elements(p.before) :
              a.type = "health" /\ a.timestamp < p.at - AlertTtl
        /\ \E a \in Elements(p.before) :
              /\ a.type = "performance"
              /\ a.timestamp > p.at - AlertTtl /\ a \in Elements(current_alerts)

\* C19: within one health-check pass a check that raises does not keep the
\* remaining services from being checked: a pass never ends before the last
\* service has been checked.
C19_PassChecksEveryService ==
    health_pass.ended \in {"completed", "error"} => health_pass.idx > Len(Services)

(***************************************************************************)
(* SpecStatus: get_status called repeatedly while nothing happens but the  *)
(* passing of time.                                                        *)
(***************************************************************************)
MaxReports == 2

\* what analyze_repository stores in self.project_context
AnalyzedContext == [project_type |-> "python", caching |-> FALSE]

\* DecisionEngine.get_recent_decisions
GetRecentDecisions(history, t) == SelectSeq(history, LAMBDA d : d.timestamp > t - 60)

\* MonitoringSystem.get_status (metrics_collected and monitoring_interval do
\* not change without a collector step and are left out)
MonitoringStatus(t) ==
    [is_monitoring |-> is_monitoring,
     active_alerts |-> Len(current_alerts),
     last_collection |-> t]

\* DevOpsAgent.get_status called at time t (infrastructure_status holds no
\* time of the call and is left out)
StatusReport(t) ==
    [is_running |-> is_running,
     project_context |-> project_context,
     monitoring_status |-> MonitoringStatus(t),
     last_decisions |-> GetRecentDecisions(decision_history, t)]

InitStatus ==
    /\ clock = 0
    /\ current_alerts \in {<<>>, <<AlertOfKind("cpu", 0)>>}
    /\ pass_log = {}
    /\ health_pass = [idx |-> 0, ended |-> "none"]
    /\ \E running \in BOOLEAN :
          /\ is_running = running
          /\ is_monitoring = running
          /\ starts = IF running THEN 1 ELSE 0
          /\ task_pc = [k \in TaskKinds |->
                          [i \in 1..MaxStarts |-> IF running /\ i = 1 THEN "sleep" ELSE "none"]]
          /\ health_idx = [i \in 1..MaxStarts |-> 0]
          /\ loop_left = [i \in 1..MaxStarts |-> 0]
          /\ cycle_bit = [i \in 1..MaxStarts |-> FALSE]
          /\ after_error = [i \in 1..MaxStarts |-> FALSE]
    /\ system_state = NoState
    /\ context = AnalyzedContext
    /\ now = 0
    /\ engine_pc = "idle"
    /\ analyzed = NoAnalysis
    /\ decisions = <<>>
    /\ decision_history \in {<<>>, <<HealDecision("web", 0)>>,
                             <<HealDecision("web", 0), HealDecision("api", 0)>>}
    /\ config = DefaultConfig
    /\ project_context \in {{}, {AnalyzedContext}}
    /\ deployed = FALSE
    /\ api_call = {}
    /\ status_reports = <<>>
    /\ HealIdle /\ DeployIdle /\ ExecIdle /\ LearnIdle /\ LoopIdle /\ SnapIdle /\ PatternIdle

\* DevOpsAgent.get_status
GetStatus ==
    /\ Len(status_reports) < MaxReports
    /\ status_reports' = Append(status_reports, StatusReport(clock))
    /\ UNCHANGED <<project_context, deployed, api_call>>
    /\ UNCHANGED <<engineVars, healVars, deployVars, execVars, learnVars, taskVars,
                   monitorVars, loopVars, patternVars, snapVars>>

NextStatus == GetStatus \/ Tick

SpecStatus == InitStatus /\ [][NextStatus]_vars

\* C17: two get_status calls with no event between them (no task step, no
\* decision, no alert or metric change) return equal reports.
C17_StatusRepeatable ==
    \A i, j \in 1..Len(status_reports) : status_reports[i] = status_reports[j]

(***************************************************************************)
(* SpecAgent: the public operations of DevOpsAgent called in any order,    *)
(* with the periodic tasks running once started.                           *)
(***************************************************************************)
\* the part of the agent's state a failed call must leave alone
AgentState == [is_running |-> is_running, is_monitoring |-> is_monitoring, starts |-> starts]

\* a call of a public operation: whether analysis and a deployment had
\* completed before it, whether it raised, whether it executed a plan, and the
\* agent's state before and after it
Call(op, raised, executed, after) ==
    {[op |-> op, analysed |-> project_context # {}, deployed |-> deployed,
      raised |-> raised, plan_executed |-> executed,
      before |-> AgentState, after |-> after]}

InitAgent ==
    /\ AgentIdle /\ LoopIdle /\ SnapIdle /\ PatternIdle
    /\ TasksIdle
    /\ EngineIdle /\ HealIdle /\ DeployIdle /\ ExecIdle /\ LearnIdle /\ MonitorIdle

\* DevOpsAgent.analyze_repository: stores the project context, or re-raises
\* what the analysis raised
AnalyzeRepository ==
    /\ \/ /\ project_context' = {AnalyzedContext}
          /\ api_call' = Call("analyze_repository", FALSE, FALSE, AgentState)
       \/ /\ UNCHANGED project_context
          /\ api_call' = Call("analyze_repository", TRUE, FALSE, AgentState)
    /\ UNCHANGED <<deployed, status_reports>>
    /\ UNCHANGED <<engineVars, healVars, deployVars, execVars, learnVars, taskVars,
                   monitorVars, loopVars, patternVars, snapVars>>

\* if not self.project_context: raise ValueError(...)
NotAnalysed == project_context = {}

\* DevOpsAgent.setup_infrastructure
SetupInfrastructure ==
    /\ IF NotAnalysed
          THEN api_call' = Call("setup_infrastructure", TRUE, FALSE, AgentState)
          ELSE api_call' = Call("setup_infrastructure", FALSE, TRUE, AgentState)
    /\ UNCHANGED <<project_context, deployed, status_reports>>
    /\ UNCHANGED <<engineVars, healVars, deployVars, execVars, learnVars, taskVars,
                   monitorVars, loopVars, patternVars, snapVars>>

\* DevOpsAgent.deploy
Deploy ==
    /\ IF NotAnalysed
          THEN /\ api_call' = Call("deploy", TRUE, FALSE, AgentState)
               /\ UNCHANGED deployed
          ELSE /\ api_call' = Call("deploy", FALSE, TRUE, AgentState)
               /\ deployed' = TRUE
    /\ UNCHANGED <<project_context, status_reports>>
    /\ UNCHANGED <<engineVars, healVars, deployVars, execVars, learnVars, taskVars,
                   monitorVars, loopVars, patternVars, snapVars>>

\* DevOpsAgent.start_monitoring
StartMonitoringCall ==
    /\ IF NotAnalysed
          THEN /\ api_call' = Call("start_monitoring", TRUE, FALSE, AgentState)
               /\ UNCHANGED <<engineVars, healVars, deployVars, execVars, learnVars, taskVars,
                              monitorVars, loopVars, patternVars, snapVars>>
          ELSE /\ StartMonitoringBody
               /\ api_call' = Call("start_monitoring", FALSE, FALSE,
                                   [is_running |-> TRUE, is_monitoring |-> TRUE,
                                    starts |-> starts + 1])
    /\ UNCHANGED <<project_context, deployed, status_reports>>

NextAgent ==
    \/ AnalyzeRepository
    \/ SetupInfrastructure
    \/ Deploy
    \/ StartMonitoringCall
    \/ Stop
    \/ \E i \in Instances : TaskStep(i)

SpecAgent == InitAgent /\ [][NextAgent]_vars

FailsWithoutEffect(c) == c.raised /\ ~c.plan_executed /\ c.after = c.before

\* C18: setup_infrastructure, deploy and start_monitoring called before the
\* repository analysis has completed, and start_monitoring called before a
\* deployment has completed, fail with an error and change no state.
C18_PreconditionsEnforced ==
    \A c \in api_call :
        /\ (c.op \in {"setup_infrastructure", "deploy", "start_monitoring"} /\ ~c.analysed)
              => FailsWithoutEffect(c)
        /\ (c.op = "start_monitoring" /\ ~c.deployed) => FailsWithoutEffect(c)

(***************************************************************************)
(* SpecAdvice: get_decision_recommendations applied to learning states     *)
(* built from recorded outcomes.                                           *)
(***************************************************************************)
MaxRecorded == 3

\* the outcomes update_from_actions can record for scale_up and
\* restart_service decisions
RecordedOutcomes ==
    UNION {{SimulateOutcome(ty, before, draw) : before \in LearnStates, draw \in Draws(ty)} :
           ty \in {"scale_up", "restart_service"}}

\* learned_thresholds after the outcomes log[i..] have been learned from
RECURSIVE LearnedAfter(_, _, _)
LearnedAfter(lt, log, i) ==
    IF i > Len(log) THEN lt
    ELSE LearnedAfter(LearnOptimalThresholds(lt, log[i]), log, i + 1)

\* the effectiveness scores recorded for an action type, in arrival order
EffectivenessOf(log, action_type) ==
    LET own == SelectSeq(log, LAMBDA o : o.action_type = action_type)
    IN [i \in 1..Len(own) |-> own[i].effectiveness]

\* a mean sum(xs) / len(xs), kept as the pair (sum, n); the default 0.0
Mean(xs) == [sum |-> Sum(xs), n |-> Len(xs)]
Zero == [sum |-> 0, n |-> 1]

\* recommendations['confidence']: the mean of the recorded execution_success
\* flags, which _simulate_action_outcome draws at random
Confidences(log, action_type) ==
    LET n == Len(EffectivenessOf(log, action_type))
    IN IF n = 0 THEN {Zero} ELSE {[sum |-> k, n |-> n] : k \in 0..n}

\* recommendations['expected_effectiveness'] (the last 100 scores are kept)
ExpectedEffectiveness(log, action_type) ==
    LET scores == LastN(EffectivenessOf(log, action_type), 100)
    IN IF scores = <<>> THEN Zero ELSE Mean(scores)

\* recommendations['best_timing']: the hour whose mean effectiveness is the
\* highest above 0; all outcomes of the model are recorded in the hour of t
BestTiming(log, action_type, t) ==
    LET scores == LastN(EffectivenessOf(log, action_type), 20)
    IN IF scores # <<>> /\ Sum(scores) > 0 THEN {HourOf(t)} ELSE {}

RecommendationTypes == {"scale_up", "scale_down", "restart_service", "heal_service"}

InitAdvice ==
    /\ outcome_log \in SeqsUpTo(RecordedOutcomes, MaxRecorded)
    /\ learned_thresholds = LearnedAfter([k \in {} |-> <<>>], outcome_log, 1)
    /\ recommendation = {}
    /\ EngineIdle /\ HealIdle /\ DeployIdle /\ ExecIdle /\ TasksIdle /\ MonitorIdle /\ AgentIdle
    /\ LoopIdle /\ SnapIdle /\ PatternIdle

\* LearningModule.get_decision_recommendations(action_type, system_state)
GetDecisionRecommendations ==
    /\ recommendation = {}
    /\ \E ty \in RecommendationTypes :
       \E confidence \in Confidences(outcome_log, ty) :
          recommendation' =
             {[action_type |-> ty,
               raised |-> FALSE,
               confidence |-> confidence,
               expected_effectiveness |-> ExpectedEffectiveness(outcome_log, ty),
               suggested_threshold |-> SuggestedThreshold(learned_thresholds, ty),
               best_timing |-> BestTiming(outcome_log, ty, now),
               before |-> [learned_thresholds |-> learned_thresholds,
                           outcome_log |-> outcome_log]]}
    /\ UNCHANGED <<learned_thresholds, outcome_log>>
    /\ UNCHANGED <<engineVars, healVars, deployVars, execVars, taskVars, monitorVars,
                   agentVars, loopVars, patternVars, snapVars>>

NextAdvice == GetDecisionRecommendations

SpecAdvice == InitAdvice /\ [][NextAdvice]_vars

NoSamples(log, action_type) == EffectivenessOf(log, action_type) = <<>>

\* C20: for an action type with no recorded samples the recommendations are
\* the defaults (confidence 0.0, expected_effectiveness 0.0, no suggested
\* threshold, no best timing), no error is raised and the learning state is
\* what it was before the call.
C20_DefaultsWithoutSamples ==
    \A r \in recommendation :
        NoSamples(r.before.outcome_log, r.action_type) =>
            /\ ~r.raised
            /\ r.confidence = Zero
            /\ r.expected_effectiveness = Zero
            /\ r.suggested_threshold = {}
            /\ r.best_timing = {}
            /\ learned_thresholds = r.before.learned_thresholds
            /\ outcome_log = r.before.outcome_log

\* C20 witness: recommendations were asked for an action type without
\* samples while scale_up samples and a learned scale_up threshold exist.
C20_Witness ==
    \E r \in recommendation :
        /\ NoSamples(outcome_log, r.action_type)
        /\ ~NoSamples(outcome_log, "scale_up")
        /\ SuggestedThreshold(learned_thresholds, "scale_up") # {}

(***************************************************************************)
(* Order of the returned decisions among equal priorities.                 *)
(***************************************************************************)
OfPriority(ds, p) == SelectSeq(ds, LAMBDA d : d.priority = p)

\* C21: among decisions of one priority the returned list keeps the order of
\* production (performance, health, security, cost, and the analyzer's own
\* order within each): the returned decisions of a priority are the earliest
\* produced decisions of that priority, in the same order.
C21_TiesKeepAnalyzerOrder ==
    engine_pc = "returned" =>
        \A p \in 1..4 :
            LET kept == OfPriority(decisions, p)
                made == OfPriority(Produced, p)
            IN /\ Len(kept) <= Len(made)
               /\ kept = SubSeq(made, 1, Len(kept))

\* C21 witness: decisions of two analyzers share the cut-off priority, they
\* differ, and a later one of that priority was cut off.
C21_Witness ==
    /\ engine_pc = "returned"
    /\ Len(decisions) = 5
    /\ LET p    == decisions[5].priority
           kept == OfPriority(decisions, p)
           made == OfPriority(Produced, p)
       IN /\ Len(kept) >= 2
          /\ Len(made) > Len(kept)
          /\ kept[1] # kept[2]
          /\ made[Len(made)] # kept[Len(kept)]
          /\ OfPriority(analyzed.performance, p) # <<>>
          /\ OfPriority(analyzed.health, p) # <<>>

(***************************************************************************)
(* The heal_service handler stops at the first successful command.         *)
(***************************************************************************)
\* the calls of the command capability that succeeded
Successes(log) == {i \in 1..Len(log) : log[i]}

\* C22: with action "restart" the handler makes no call after a successful
\* one: a first success on call k ends it with success=true and attempts = k
\* after exactly k calls, and success=false is returned only after
\* max_attempts calls that all failed.
C22_HealStopsAtFirstSuccess ==
    LET N == HealMaxAttempts(heal_decision)
        k == Len(cmd_log)
    IN HealAction(heal_decision) = "restart" =>
          /\ k <= N
          /\ Successes(cmd_log) \subseteq {k}
          /\ Successes(cmd_log) # {} =>
                /\ heal_pc = "done"
                /\ heal_result = {[success |-> TRUE, target |-> heal_decision.target,
                                   action |-> "restart", attempts |-> k]}
          /\ \A r \in heal_result :
                /\ r.success => Successes(cmd_log) = {k}
                /\ ~r.success => (AllFailed(cmd_log) /\ k = N)

\* C22 witness: two failed calls, then a successful third one of four allowed,
\* and the handler has returned success with attempts = 3.
C22_Witness ==
    /\ heal_pc = "done"
    /\ HealAction(heal_decision) = "restart"
    /\ HealMaxAttempts(heal_decision) = 4
    /\ cmd_log = <<FALSE, FALSE, TRUE>>
    /\ \E r \in heal_result : r.success /\ r.attempts = 3

(***************************************************************************)
(* SpecLoop: the body of _autonomous_decision_loop, one step per           *)
(* suspension point.  get_system_state, make_decisions and                 *)
(* update_from_actions never suspend; execute_action suspends in the       *)
(* command capability, so a call begins in one step and returns in         *)
(* another.  engine_pc is the position of the loop:                        *)
(*   "fetch" before get_system_state, "ready" before make_decisions,       *)
(*   "returned" between two execute_action calls, "exec" inside one.       *)
(***************************************************************************)
MaxCycles == 2

Event(kind, data) == [kind |-> kind, data |-> data]

Fetches(log) == {j \in 1..Len(log) : log[j].kind = "fetch"}

InitLoop == InitCycle

\* system_state = await self.monitoring_system.get_system_state()
LoopFetch ==
    /\ engine_pc = "fetch"
    /\ Cardinality(Fetches(cycle_log)) < MaxCycles
    /\ \E s \in CycleStates(now) :
          /\ system_state' = s
          /\ cycle_log' = Append(cycle_log, Event("fetch", s))
    /\ engine_pc' = "ready"
    /\ exec_pos' = 0
    /\ UNCHANGED <<context, now, analyzed, decisions, decision_history, config>>
    /\ UNCHANGED <<healVars, deployVars, execVars, learnVars, taskVars, monitorVars,
                   agentVars, patternVars, snapVars>>

\* a variant that does not await one call before it begins the next
MayStartNextAtOnce == engine_pc \in {"returned", "exec"}

\* for decision in decisions: await self.action_executor.execute_action(decision)
\* the for loop takes its next decision when the awaited call has returned
MayStartNext == engine_pc = "returned"

\* execute_action(decisions[exec_pos + 1]) is called and suspends
CycleExecStart ==
    /\ MayStartNext
    /\ exec_pos < Len(decisions)
    /\ exec_pos' = exec_pos + 1
    /\ engine_pc' = "exec"
    /\ cycle_log' = Append(cycle_log, Event("start", decisions[exec_pos + 1]))
    /\ UNCHANGED <<system_state, context, now, analyzed, decisions, decision_history, config>>
    /\ UNCHANGED <<healVars, deployVars, execVars, learnVars, taskVars, monitorVars,
                   agentVars, patternVars, snapVars>>

\* the execute_action call in progress returns its result
CycleExecReturns ==
    /\ engine_pc = "exec"
    /\ LET d == decisions[exec_pos]
       IN \E behaviour \in HandlerBehaviours(Handler(d)) :
             LET out == ExecuteActionOutcome(d, behaviour)
             IN execution_history' = execution_history \o <<CHOOSE r \in out.result : TRUE>>
    /\ engine_pc' = "returned"
    /\ cycle_log' = Append(cycle_log, Event("return", decisions[exec_pos]))
    /\ UNCHANGED <<exec_call, exec_pos>>
    /\ UNCHANGED <<system_state, context, now, analyzed, decisions, decision_history, config>>
    /\ UNCHANGED <<healVars, deployVars, learnVars, taskVars, monitorVars, agentVars, patternVars,
                   snapVars>>

\* await self.learning_module.update_from_actions(decisions, system_state),
\* then the sleep that ends the cycle
LoopLearn ==
    /\ engine_pc = "returned"
    /\ exec_pos = Len(decisions)
    /\ Len(outcome_log) + Len(decisions) <= MaxOutcomes
    /\ LET types == ActionTypesOf(decisions)
       IN \E draws \in DrawSeqs(types) :
             /\ learned_thresholds' =
                   LearnFrom(learned_thresholds, types, system_state, draws, 1)
             /\ outcome_log' = outcome_log \o
                   [i \in 1..Len(types) |-> SimulateOutcome(types[i], system_state, draws[i])]
    /\ cycle_log' = Append(cycle_log, Event("learn", <<decisions, system_state>>))
    /\ engine_pc' = "fetch"
    /\ UNCHANGED <<recommendation, exec_pos>>
    /\ UNCHANGED <<system_state, context, now, analyzed, decisions, decision_history, config>>
    /\ UNCHANGED <<healVars, deployVars, execVars, taskVars, monitorVars, agentVars, patternVars,
                   snapVars>>

NextLoop == LoopFetch \/ MakeDecisions \/ CycleExecStart \/ CycleExecReturns \/ LoopLearn

SpecLoop == InitLoop /\ [][NextLoop]_vars

\* the events of the cycle that began with the fetch at position f
CycleEnd(log, f) ==
    LET later == {j \in Fetches(log) : j > f}
    IN IF later = {} THEN Len(log) ELSE (CHOOSE j \in later : \A k \in later : j <= k) - 1

\* the data of the events of one kind among log[f..e], in order
DataOf(log, f, e, kind) ==
    LET seg == SelectSeq(SubSeq(log, f, e), LAMBDA ev : ev.kind = kind)
    IN [i \in 1..Len(seg) |-> seg[i].data]

\* C23: a cycle fetches the state, decides, executes and then learns: the
\* decisions are executed in the order make_decisions returned them (highest
\* priority first), a call begins only when the one before has returned, the
\* learning update comes after the last return and is given exactly the
\* executed decisions and the state fetched in this cycle, and the next cycle
\* begins only after that update.
C23_CycleStepsInOrder ==
    /\ cycle_log # <<>> => cycle_log[1].kind = "fetch"
    /\ \A j \in 1..Len(cycle_log) - 1 :
          LET ev == cycle_log[j]
              nx == cycle_log[j + 1]
          IN CASE ev.kind = "fetch"  -> nx.kind \in {"start", "learn"}
               [] ev.kind = "start"  -> nx.kind = "return" /\ nx.data = ev.data
               [] ev.kind = "return" -> nx.kind \in {"start", "learn"}
               [] ev.kind = "learn"  -> nx.kind = "fetch"
    /\ \A f \in Fetches(cycle_log) :
          LET e       == CycleEnd(cycle_log, f)
              started == DataOf(cycle_log, f, e, "start")
              learnt  == DataOf(cycle_log, f, e, "learn")
          IN /\ \A i \in 1..Len(started) - 1 : started[i].priority >= started[i + 1].priority
             /\ Len(learnt) <= 1
             /\ \A i \in 1..Len(learnt) :
                   /\ learnt[i] = <<started, cycle_log[f].data>>
                   /\ cycle_log[e].kind = "learn"
             /\ (e = Len(cycle_log) /\ engine_pc \in {"returned", "exec"}) =>
                   /\ started = SubSeq(decisions, 1, exec_pos)
                   /\ system_state = cycle_log[f].data
             /\ (e = Len(cycle_log) /\ engine_pc = "fetch") =>
                   /\ started = decisions
                   /\ learnt # <<>>

\* C23 witness: a cycle executed two decisions of different priority and
\* learned from them, and the next cycle has begun a call.
C23_Witness ==
    \E f \in Fetches(cycle_log) :
        LET e       == CycleEnd(cycle_log, f)
            started == DataOf(cycle_log, f, e, "start")
        IN /\ e < Len(cycle_log)
           /\ Len(started) >= 2
           /\ started[1].priority > started[2].priority
           /\ cycle_log[Len(cycle_log)].kind = "start"

(***************************************************************************)
(* overall_success of execute_deployment.                                  *)
(***************************************************************************)
AllSucceeded(results) == \A i \in 1..Len(results) : results[i].success

\* C24: overall_success is true exactly when every stage of the plan was
\* executed and succeeded and no exception occurred; any failed stage, a
\* failed deploy_production included, makes it false, and no later successful
\* stage makes it true again.
C24_OverallSuccessMeansAllStages ==
    /\ overall_success => (AllSucceeded(stage_results) /\ deploy_pc # "error")
    /\ deploy_pc \in {"done", "error"} =>
          (overall_success <=>
              /\ deploy_pc = "done"
              /\ Len(stage_results) = Len(plan)
              /\ AllSucceeded(stage_results))

\* C24 witness: deploy_production failed, the run went on, the stage after it
\* succeeded, and the finished run reports overall_success = false.
C24_Witness ==
    /\ deploy_pc = "done"
    /\ Len(plan) = 3
    /\ stage_results = <<[name |-> "source", success |-> TRUE],
                         [name |-> "deploy_production", success |-> FALSE],
                         [name |-> "test", success |-> TRUE]>>
    /\ ~overall_success

(***************************************************************************)
(* SpecMetrics: _calculate_outcome_metrics applied to a before/after pair. *)
(***************************************************************************)
OneDown == [s \in DOMAIN NoState.service_health |-> s # "web"]

MetricStates ==
    [cpu_usage : {40, 50}, memory_usage : {50, 60}, disk_usage : {35},
     response_time : {800, 900}, error_rate : {150, 200},
     service_health : {NoState.service_health, OneDown}, alerts : {<<>>},
     last_deployment : {{}}]

\* the metrics dict of _calculate_outcome_metrics
OutcomeMetrics(before, after) ==
    [cpu_improvement           |-> before.cpu_usage - after.cpu_usage,
     memory_improvement        |-> before.memory_usage - after.memory_usage,
     response_time_improvement |-> before.response_time - after.response_time,
     error_rate_improvement    |-> before.error_rate - after.error_rate,
     health_improvement        |-> HealthyCount(after) - HealthyCount(before),
     overall_effectiveness     |-> OverallEffectiveness(before, after)]

InitMetrics ==
    /\ PatternIdle
    /\ EngineIdle /\ HealIdle /\ DeployIdle /\ ExecIdle /\ LearnIdle /\ TasksIdle
    /\ MonitorIdle /\ AgentIdle /\ LoopIdle /\ SnapIdle

\* LearningModule._calculate_outcome_metrics(before, after)
CalculateOutcomeMetrics ==
    /\ metrics_call = {}
    /\ \E before \in MetricStates, after \in MetricStates :
          metrics_call' = {[before |-> before, after |-> after,
                            metrics |-> OutcomeMetrics(before, after)]}
    /\ UNCHANGED <<decision_effectiveness, performance_patterns>>
    /\ UNCHANGED <<engineVars, healVars, deployVars, execVars, learnVars, taskVars,
                   monitorVars, agentVars, loopVars, snapVars>>

NextMetrics == CalculateOutcomeMetrics

SpecMetrics == InitMetrics /\ [][NextMetrics]_vars

Indicator(improvement) == IF improvement > 0 THEN 1 ELSE 0

\* C25: overall effectiveness (in tenths) is 3 for a positive CPU improvement
\* plus 3 for a positive response-time improvement plus 2 for a positive
\* error-rate improvement plus 2 for a positive health improvement, every
\* improvement being before minus after (health: healthy services after minus
\* before); it lies between 0 and 10, and neither a memory improvement nor an
\* improvement of exactly 0 adds to it.
C25_EffectivenessIsWeightedIndicators ==
    \A c \in metrics_call :
        LET cpu    == c.before.cpu_usage - c.after.cpu_usage
            rt     == c.before.response_time - c.after.response_time
            err    == c.before.error_rate - c.after.error_rate
            health == HealthyCount(c.after) - HealthyCount(c.before)
            score  == c.metrics.overall_effectiveness
        IN /\ score = 3 * Indicator(cpu) + 3 * Indicator(rt) + 2 * Indicator(err)
                        + 2 * Indicator(health)
           /\ score \in 0..10
           /\ (cpu <= 0 /\ rt <= 0 /\ err <= 0 /\ health <= 0) => score = 0

\* C25 witness: memory and response time improved, the CPU improvement is
\* exactly 0, error rate and health got worse, and the score is 0.3.
C25_Witness ==
    \E c \in metrics_call :
        /\ c.metrics.memory_improvement > 0
        /\ c.metrics.cpu_improvement = 0
        /\ c.metrics.response_time_improvement > 0
        /\ c.metrics.error_rate_improvement < 0
        /\ c.metrics.health_improvement < 0
        /\ c.metrics.overall_effectiveness = 3

(***************************************************************************)
(* SpecPatterns: update_from_actions with the effectiveness buffers, the   *)
(* timing buckets and the context buckets kept as state.  An outcome here  *)
(* carries, besides the fields of SimulateOutcome, its execution_success   *)
(* flag, the hour of its timestamp, its before-state and the category of  *)
(* that state.                                                             *)
(* A timing map is the list of (hour, samples) in the order the hours were *)
(* first seen, which is the iteration order of the dict.                   *)
(***************************************************************************)
MaxNewOutcomes   == 2
EffectivenessCap == 100
TimingCap        == 20
ContextCap       == 30

\* a variant that keeps the oldest samples
TrimKeepsOldest(samples, cap) == SubSeq(samples, 1, Min(cap, Len(samples)))

\* if len(lst) > cap: lst[:] = lst[-cap:]
Trim(samples, cap) == LastN(samples, cap)

\* a variant that tests the error rate first
CategorizeErrorsFirst(state) ==
    IF state.error_rate > 500 THEN "high_errors"
    ELSE IF state.cpu_usage > 80 \/ state.memory_usage > 80 THEN "high_load"
    ELSE IF state.cpu_usage < 30 /\ state.memory_usage < 40 THEN "low_load"
    ELSE IF state.response_time > 2000 THEN "slow_response"
    ELSE "normal"

\* _categorize_system_state
CategorizeSystemState(state) ==
    IF state.cpu_usage > 80 \/ state.memory_usage > 80 THEN "high_load"
    ELSE IF state.cpu_usage < 30 /\ state.memory_usage < 40 THEN "low_load"
    ELSE IF state.error_rate > 500 THEN "high_errors"
    ELSE IF state.response_time > 2000 THEN "slow_response"
    ELSE "normal"

\* the ActionOutcome of _simulate_action_outcome, created in the given hour
ObservedOutcome(action_type, before, draw, success, hour) ==
    LET o == SimulateOutcome(action_type, before, draw)
    IN [action_type |-> o.action_type, cpu_before |-> o.cpu_before,
        effectiveness |-> o.effectiveness, execution_success |-> success,
        hour |-> hour, before |-> before, category |-> CategorizeSystemState(before)]

\* _update_decision_effectiveness
UpdateDecisionEffectiveness(de, o) ==
    LET cur == IF o.action_type \in DOMAIN de THEN de[o.action_type]
               ELSE [success_rate |-> <<>>, effectiveness |-> <<>>]
    IN Put(de, o.action_type,
           [success_rate |->
                Trim(Append(cur.success_rate, IF o.execution_success THEN 1 ELSE 0),
                     EffectivenessCap),
            effectiveness |->
                Trim(Append(cur.effectiveness, o.effectiveness), EffectivenessCap)])

\* _learn_timing_patterns
LearnTimingPatterns(timing, o) ==
    LET cur == IF o.action_type \in DOMAIN timing THEN timing[o.action_type] ELSE <<>>
    IN IF \E i \in 1..Len(cur) : cur[i].hour = o.hour
          THEN Put(timing, o.action_type,
                   [i \in 1..Len(cur) |->
                       IF cur[i].hour = o.hour
                          THEN [hour |-> o.hour,
                                samples |-> Trim(Append(cur[i].samples, o.effectiveness),
                                                 TimingCap)]
                          ELSE cur[i]])
          ELSE Put(timing, o.action_type,
                   Append(cur, [hour |-> o.hour, samples |-> <<o.effectiveness>>]))

\* _learn_context_patterns
LearnContextPatterns(buckets, o) ==
    LET key == <<o.action_type, o.category>>
        cur == IF key \in DOMAIN buckets THEN buckets[key] ELSE <<>>
    IN Put(buckets, key, Trim(Append(cur, o.effectiveness), ContextCap))

\* the body of the for loop of update_from_actions for one outcome
LearnOutcome(st, o) ==
    [effectiveness |-> UpdateDecisionEffectiveness(st.effectiveness, o),
     thresholds    |-> LearnOptimalThresholds(st.thresholds, o),
     patterns      |-> [timing  |-> LearnTimingPatterns(st.patterns.timing, o),
                        context |-> LearnContextPatterns(st.patterns.context, o)]]

Unlearned ==
    [effectiveness |-> [k \in {} |-> <<>>], thresholds |-> [k \in {} |-> <<>>],
     patterns |-> NoPatterns]


PatternStates ==
    {[NoState EXCEPT !.cpu_usage = 85, !.error_rate = 600],
     [NoState EXCEPT !.cpu_usage = 20, !.error_rate = 600],
     [NoState EXCEPT !.error_rate = 600, !.response_time = 2500],
     [NoState EXCEPT !.response_time = 2500],
     NoState}

PatternTypes == {"scale_up", "scale_down"}
PatternHours == {9, 14}

\* n scale_up outcomes recorded at 9 h under high load, of varying success
\* and effectiveness
WarmLog(n) ==
    [i \in 1..n |->
        ObservedOutcome("scale_up",
                        [NoState EXCEPT !.cpu_usage = 85,
                                        !.response_time = IF i % 3 = 0 THEN 100 ELSE 800],
                        [cpu |-> 10, rt |-> 200, err |-> 0], i % 2 = 0, 9)]

\* the learning state after the outcomes of WarmLog(n), from a new
\* LearningModule: one action type, one hour, one category
WarmState(n) ==
    LET log    == WarmLog(n)
        scores == [i \in 1..n |-> log[i].effectiveness]
        flags  == [i \in 1..n |-> IF log[i].execution_success THEN 1 ELSE 0]
        good   == SelectSeq(log, LAMBDA o : Effective(o.effectiveness))
    IN IF n = 0 THEN Unlearned
       ELSE [effectiveness |->
                [k \in {"scale_up"} |->
                    [success_rate  |-> Trim(flags, EffectivenessCap),
                     effectiveness |-> Trim(scores, EffectivenessCap)]],
             thresholds |->
                [k \in {"scale_up_cpu_threshold"} |->
                    KeepRecent([i \in 1..Len(good) |-> good[i].cpu_before])],
             patterns |->
                [timing  |-> [k \in {"scale_up"} |->
                                 <<[hour |-> 9, samples |-> Trim(scores, TimingCap)]>>],
                 context |-> [k \in {<<"scale_up", "high_load">>} |->
                                 Trim(scores, ContextCap)]]]

InitPatterns ==
    /\ \E n \in {0, EffectivenessCap} :
          /\ outcome_log = WarmLog(n)
          /\ LET st == WarmState(n)
             IN /\ decision_effectiveness = st.effectiveness
                /\ learned_thresholds = st.thresholds
                /\ performance_patterns = st.patterns
    /\ recommendation = {}
    /\ metrics_call = {}
    /\ EngineIdle /\ HealIdle /\ DeployIdle /\ ExecIdle /\ TasksIdle /\ MonitorIdle
    /\ AgentIdle /\ LoopIdle /\ SnapIdle

\* the outcomes recorded since the start
NewOutcomes ==
    Len(outcome_log) - (CHOOSE n \in {0, EffectivenessCap} :
                            n <= Len(outcome_log) /\ Len(outcome_log) <= n + MaxNewOutcomes)

\* LearningModule.update_from_actions([decision], system_state)
UpdatePatterns ==
    /\ NewOutcomes < MaxNewOutcomes
    /\ \E ty \in PatternTypes, before \in PatternStates, success \in BOOLEAN,
          hour \in PatternHours :
       \E draw \in Draws(ty) :
          LET o  == ObservedOutcome(ty, before, draw, success, hour)
              st == LearnOutcome([effectiveness |-> decision_effectiveness,
                                  thresholds |-> learned_thresholds,
                                  patterns |-> performance_patterns], o)
          IN /\ decision_effectiveness' = st.effectiveness
             /\ learned_thresholds' = st.thresholds
             /\ performance_patterns' = st.patterns
             /\ outcome_log' = Append(outcome_log, o)
    /\ UNCHANGED <<recommendation, metrics_call>>
    /\ UNCHANGED <<engineVars, healVars, deployVars, execVars, taskVars, monitorVars,
                   agentVars, loopVars, snapVars>>

NextPatterns == UpdatePatterns

SpecPatterns == InitPatterns /\ [][NextPatterns]_vars

\* the values of one field of the outcomes of the log that satisfy a test
FieldOf(log, Test(_), Field(_)) ==
    LET own == SelectSeq(log, Test)
    IN [i \in 1..Len(own) |-> Field(own[i])]

\* C26: for every action type the success_rate buffer and the effectiveness
\* buffer hold the most recent samples of that type, at most 100 of them, in
\* arrival order, and the two buffers have the same length.
C26_BuffersHoldLastHundred ==
    /\ DOMAIN decision_effectiveness =
          {outcome_log[i].action_type : i \in 1..Len(outcome_log)}
    /\ \A ty \in DOMAIN decision_effectiveness :
          LET b == decision_effectiveness[ty]
          IN /\ Len(b.success_rate) <= 100
             /\ Len(b.effectiveness) <= 100
             /\ Len(b.success_rate) = Len(b.effectiveness)
             /\ b.success_rate =
                   LastN(FieldOf(outcome_log, LAMBDA o : o.action_type = ty,
                                 LAMBDA o : IF o.execution_success THEN 1 ELSE 0), 100)
             /\ b.effectiveness =
                   LastN(FieldOf(outcome_log, LAMBDA o : o.action_type = ty,
                                 LAMBDA o : o.effectiveness), 100)

\* C26 witness: more than 100 scale_up outcomes have arrived, the buffers are
\* full, and the sample evicted differs from the one now oldest.
C26_Witness ==
    /\ "scale_up" \in DOMAIN decision_effectiveness
    /\ LET all == FieldOf(outcome_log, LAMBDA o : o.action_type = "scale_up",
                          LAMBDA o : o.effectiveness)
           b   == decision_effectiveness["scale_up"]
       IN /\ Len(all) > 100
          /\ Len(b.effectiveness) = 100
          /\ all[Len(all) - 100] # b.effectiveness[1]

\* the state categories, each with the condition that selects it once the
\* categories before it have been ruled out
CategoryOrder == <<"high_load", "low_load", "high_errors", "slow_response", "normal">>

Fits(category, state) ==
    CASE category = "high_load"     -> state.cpu_usage > 80 \/ state.memory_usage > 80
      [] category = "low_load"      -> state.cpu_usage < 30 /\ state.memory_usage < 40
      [] category = "high_errors"   -> state.error_rate > 500
      [] category = "slow_response" -> state.response_time > 2000
      [] category = "normal"        -> TRUE

\* the position in CategoryOrder of the first category that fits the state
FirstFitting(state) ==
    CHOOSE i \in 1..Len(CategoryOrder) :
        /\ Fits(CategoryOrder[i], state)
        /\ \A j \in 1..i - 1 : ~Fits(CategoryOrder[j], state)

\* C27: every timing bucket (action type, hour) holds the last samples, at
\* most 20, of the outcomes of that type and hour, and every context bucket
\* (action type, category) the last samples, at most 30, of the outcomes of
\* that type whose before-state falls in that category, the category being the
\* first that fits in the order high_load, low_load, high_errors,
\* slow_response, normal: each outcome adds one sample to one bucket of each
\* kind.
C27_PatternBucketsCapped ==
    LET timing  == performance_patterns.timing
        buckets == performance_patterns.context
    IN /\ DOMAIN timing = {outcome_log[i].action_type : i \in 1..Len(outcome_log)}
       /\ \A ty \in DOMAIN timing :
             /\ {timing[ty][i].hour : i \in 1..Len(timing[ty])}
                   = {outcome_log[i].hour : i \in {j \in 1..Len(outcome_log) :
                                                     outcome_log[j].action_type = ty}}
             /\ \A i \in 1..Len(timing[ty]) :
                   /\ Len(timing[ty][i].samples) <= 20
                   /\ \A j \in 1..Len(timing[ty]) :
                         timing[ty][j].hour = timing[ty][i].hour => j = i
                   /\ timing[ty][i].samples =
                         LastN(FieldOf(outcome_log,
                                       LAMBDA o : o.action_type = ty
                                                  /\ o.hour = timing[ty][i].hour,
                                       LAMBDA o : o.effectiveness), 20)
       /\ DOMAIN buckets =
             {<<outcome_log[i].action_type,
                CategoryOrder[FirstFitting(outcome_log[i].before)]>> :
                    i \in 1..Len(outcome_log)}
       /\ \A key \in DOMAIN buckets :
             /\ Len(buckets[key]) <= 30
             /\ buckets[key] =
                   LastN(FieldOf(outcome_log,
                                 LAMBDA o : o.action_type = key[1]
                                            /\ CategoryOrder[FirstFitting(o.before)] = key[2],
                                 LAMBDA o : o.effectiveness), 30)

\* C27 witness: the 9 h bucket of scale_up is full and has evicted a sample,
\* another hour has its own bucket, and an outcome whose before-state has both
\* a high load and a high error rate went to the full high_load bucket.
C27_Witness ==
    /\ "scale_up" \in DOMAIN performance_patterns.timing
    /\ <<"scale_up", "high_load">> \in DOMAIN performance_patterns.context
    /\ LET t == performance_patterns.timing["scale_up"]
           last == outcome_log[Len(outcome_log)]
       IN /\ Len(t) = 2
          /\ Len(t[1].samples) = 20
          /\ Len(FieldOf(outcome_log, LAMBDA o : o.hour = t[1].hour,
                         LAMBDA o : o.effectiveness)) > 20
          /\ Len(performance_patterns.context[<<"scale_up", "high_load">>]) = 30
          /\ last.action_type = "scale_up"
          /\ last.before.cpu_usage > 80
          /\ last.before.error_rate > 500

(***************************************************************************)
(* SpecTiming: outcomes are recorded, then get_decision_recommendations    *)
(* is asked once, reading the stored buffers and buckets.                  *)
(***************************************************************************)
\* the timing part of get_decision_recommendations: the loop over
\* timing_data.items() from entry i on, best_hour (None: {}) and
\* best_effectiveness (the pair sum, n) being those found so far
RECURSIVE BestHourFrom(_, _, _, _)
BestHourFrom(timing_data, i, best_hour, best) ==
    IF i > Len(timing_data) THEN best_hour
    ELSE LET avg == Mean(timing_data[i].samples)
         IN IF timing_data[i].samples # <<>> /\ avg.sum * best.n > best.sum * avg.n
               THEN BestHourFrom(timing_data, i + 1, {timing_data[i].hour}, avg)
               ELSE BestHourFrom(timing_data, i + 1, best_hour, best)

\* recommendations['best_timing']
BestTimingOf(patterns, action_type) ==
    IF action_type \in DOMAIN patterns.timing
       THEN BestHourFrom(patterns.timing[action_type], 1, {}, Zero)
       ELSE {}

\* the mean of a stored buffer of an action type, 0.0 when there is none
MeanOfBuffer(de, action_type, metric) ==
    IF action_type \in DOMAIN de /\ de[action_type][metric] # <<>>
       THEN Mean(de[action_type][metric])
       ELSE Zero

InitTiming == InitPatterns

\* update_from_actions, before the recommendations are asked for
UpdateBeforeAdvice ==
    /\ recommendation = {}
    /\ UpdatePatterns

\* LearningModule.get_decision_recommendations(action_type, system_state)
GetDecisionRecommendationsFromPatterns ==
    /\ recommendation = {}
    /\ \E ty \in PatternTypes \cup {"restart_service"} :
          recommendation' =
             {[action_type |-> ty,
               raised |-> FALSE,
               confidence |-> MeanOfBuffer(decision_effectiveness, ty, "success_rate"),
               expected_effectiveness |->
                   MeanOfBuffer(decision_effectiveness, ty, "effectiveness"),
               suggested_threshold |-> SuggestedThreshold(learned_thresholds, ty),
               best_timing |-> BestTimingOf(performance_patterns, ty),
               before |-> [learned_thresholds |-> learned_thresholds,
                           outcome_log |-> outcome_log]]}
    /\ UNCHANGED <<learned_thresholds, outcome_log>>
    /\ UNCHANGED patternVars
    /\ UNCHANGED <<engineVars, healVars, deployVars, execVars, taskVars, monitorVars,
                   agentVars, loopVars, snapVars>>

NextTiming == UpdateBeforeAdvice \/ GetDecisionRecommendationsFromPatterns

SpecTiming == InitTiming /\ [][NextTiming]_vars

\* the hours with timing samples of an action type, each with its mean
HourMeans(patterns, action_type) ==
    IF action_type \in DOMAIN patterns.timing
       THEN {[hour |-> patterns.timing[action_type][i].hour,
              mean |-> Mean(patterns.timing[action_type][i].samples)] :
                 i \in 1..Len(patterns.timing[action_type])}
       ELSE {}

\* C28: when an action type has at least one timing sample, best_timing is
\* an hour with samples whose mean effectiveness is the highest among the
\* hours with samples of that type, and it is never None.
C28_BestTimingIsBestHour ==
    \A r \in recommendation :
        LET means == HourMeans(performance_patterns, r.action_type)
        IN means # {} =>
              /\ r.best_timing # {}
              /\ \A h \in r.best_timing :
                    \E m \in means :
                       /\ m.hour = h
                       /\ \A o \in means : m.mean.sum * o.mean.n >= o.mean.sum * m.mean.n


(***************************************************************************)
(* Monitoring System: the threshold alerts of one alert-check pass         *)
(***************************************************************************)

\* a variant that also alerts on a value equal to its threshold
Reaches(value, threshold) == value >= threshold

\* if current_state.<metric> > <threshold>
Exceeds(value, threshold) == value > threshold

\* the five threshold checks of _check_alerts, in the order of the code;
\* response_time in milliseconds, error_rate in hundredths of a percent
ThresholdChecks ==
    << [kind |-> "cpu",      metric |-> "cpu_usage",     above |-> 90],
       [kind |-> "memory",   metric |-> "memory_usage",  above |-> 90],
       [kind |-> "disk",     metric |-> "disk_usage",    above |-> 85],
       [kind |-> "response", metric |-> "response_time", above |-> 3000],
       [kind |-> "error",    metric |-> "error_rate",    above |-> 500] >>

\* the alerts the five checks append to new_alerts for a sampled state
ThresholdAlerts(state, t) ==
    LET raised == SelectSeq(ThresholdChecks,
                            LAMBDA c : Exceeds(state[c.metric], c.above))
    IN [i \in 1..Len(raised) |-> AlertOfKind(raised[i].kind, t)]

\* every metric at its threshold
AtThresholds ==
    [cpu_usage |-> 90, memory_usage |-> 90, disk_usage |-> 85,
     response_time |-> 3000, error_rate |-> 500]

\* every metric just above its threshold
AboveThresholds ==
    [cpu_usage |-> 91, memory_usage |-> 91, disk_usage |-> 86,
     response_time |-> 3001, error_rate |-> 501]

\* the states a pass samples: all metrics at their thresholds, one of them above,
\* all of them above
ThresholdStates ==
    {AtThresholds, AboveThresholds}
    \cup {[AtThresholds EXCEPT ![m] = AboveThresholds[m]] : m \in DOMAIN AtThresholds}

\* the two random draws of a pass: the security alert, the certificate alert
SecurityDraws == {<<>>, <<"security">>, <<"ssl">>, <<"security", "ssl">>}

InitThresholds == InitAlerts

\* one iteration of MonitoringSystem._check_alerts up to its sleep, the new
\* alerts computed from the one state the pass samples; the next pass follows
\* the sleep
CheckAlerts ==
    /\ pass_log = {}
    /\ \E current_state \in ThresholdStates, draws \in SecurityDraws :
          LET new_alerts == ThresholdAlerts(current_state, clock)
                            \o [i \in 1..Len(draws) |-> AlertOfKind(draws[i], clock)]
          IN /\ current_alerts' = PruneAlerts(current_alerts \o new_alerts, clock)
             /\ returned_states' = Rebound(Extended(returned_states, new_alerts))
             /\ pass_log' = {[before |-> current_alerts, new |-> new_alerts, at |-> clock,
                              sampled |-> current_state]}
    /\ UNCHANGED <<clock, health_pass>>
    /\ UNCHANGED <<engineVars, healVars, deployVars, execVars, learnVars, taskVars,
                   agentVars, loopVars, patternVars>>

NextThresholds == Tick \/ CheckAlerts

SpecThresholds == InitThresholds /\ [][NextThresholds]_vars

\* the alerts of a list that carry the given id
WithId(alerts, id) == SelectSeq(alerts, LAMBDA a : a.id = id)

\* the pass raised the alert of that id, type and severity exactly when expected
RaisedIff(new, expected, id, type, severity) ==
    LET found == WithId(new, id)
    IN /\ Len(found) = (IF expected THEN 1 ELSE 0)
       /\ \A i \in 1..Len(found) : found[i].type = type /\ found[i].severity = severity

\* C29: an alert-check pass raises, for the state it sampled, a high performance
\* alert iff cpu_usage > 90, a high performance alert iff memory_usage > 90, a
\* medium storage alert iff disk_usage > 85, a medium performance alert iff
\* response_time > 3.0 s and a high error alert iff error_rate > 5, and no other
\* alert that is not a security alert; a value equal to its threshold raises none
C29_ThresholdAlertsExact ==
    \A p \in pass_log :
        "sampled" \in DOMAIN p =>
            /\ RaisedIff(p.new, p.sampled.cpu_usage > 90, "cpu-alert", "performance", "high")
            /\ RaisedIff(p.new, p.sampled.memory_usage > 90, "memory-alert", "performance",
                         "high")
            /\ RaisedIff(p.new, p.sampled.disk_usage > 85, "disk-alert", "storage", "medium")
            /\ RaisedIff(p.new, p.sampled.response_time > 3000, "response-alert",
                         "performance", "medium")
            /\ RaisedIff(p.new, p.sampled.error_rate > 500, "error-alert", "error", "high")
            /\ \A i \in 1..Len(p.new) :
                  p.new[i].type # "security" =>
                      p.new[i].id \in {"cpu-alert", "memory-alert", "disk-alert",
                                       "response-alert", "error-alert"}

\* a pass sampled cpu_usage = 90 and disk_usage = 86: it raised the storage alert
\* and no cpu alert
C29_Witness ==
    \E p \in pass_log :
        /\ "sampled" \in DOMAIN p
        /\ p.sampled.cpu_usage = 90
        /\ p.sampled.disk_usage = 86
        /\ Len(WithId(p.new, "disk-alert")) = 1
        /\ Len(WithId(p.new, "cpu-alert")) = 0


(***************************************************************************)
(* Monitoring System: the alerts of a returned SystemState                 *)
(***************************************************************************)

MaxReturned == 1

InitSnapshot == InitAlerts

\* MonitoringSystem.get_system_state, called by a task that keeps the returned
\* state: alerts = self.current_alerts.copy(); the call has no suspension point.
\* alerts_at_call records the alert list as it was at the call
GetSystemState ==
    /\ Len(returned_states) < MaxReturned
    /\ returned_states' = Append(returned_states,
                                 [alerts |-> CopyOfList(current_alerts),
                                  alerts_at_call |-> current_alerts,
                                  at |-> clock])
    /\ UNCHANGED monitorVars
    /\ UNCHANGED <<engineVars, healVars, deployVars, execVars, learnVars, taskVars,
                   agentVars, loopVars, patternVars>>

NextSnapshot == Tick \/ AlertCheckPass \/ HealthPassBegin \/ HealthCheck \/ GetSystemState

SpecSnapshot == InitSnapshot /\ [][NextSnapshot]_vars

\* C30: the alerts of a returned SystemState are the whole alerts that were in
\* the alert list at the time of the call, whatever the alert checker and the
\* health checker appended or pruned since
C30_ReturnedAlertsAreSnapshot ==
    \A i \in 1..Len(returned_states) :
        returned_states[i].alerts.items = returned_states[i].alerts_at_call

\* a state was returned with one alert, and the alert list then grew
C30_Witness ==
    \E i \in 1..Len(returned_states) :
        /\ Len(returned_states[i].alerts_at_call) = 1
        /\ Len(current_alerts) = 2
        /\ current_alerts[1] = returned_states[i].alerts_at_call[1]


(***************************************************************************)
(* Monitoring System: the alert checker beside the health checker          *)
(***************************************************************************)

\* a variant that prunes the alerts the pass read when it sampled the state
PruneSourceSampled(live, sampled) == sampled

\* the list the pruning comprehension of _check_alerts iterates: the list
\* self.current_alerts is bound to when the statement runs
PruneSource(live, sampled) == live

InitRaces == InitAlerts

\* current_state = await self.get_system_state(): the alert checker holds the
\* returned state. The await is taken as a point where the other tasks may run,
\* which allows every interleaving asyncio allows and more
AlertPassSamples ==
    /\ returned_states = <<>>
    /\ returned_states' = <<[alerts |-> CopyOfList(current_alerts),
                             alerts_at_call |-> current_alerts,
                             at |-> clock]>>
    /\ pass_log' = {}
    /\ UNCHANGED <<clock, current_alerts, health_pass>>
    /\ UNCHANGED <<engineVars, healVars, deployVars, execVars, learnVars, taskVars,
                   agentVars, loopVars, patternVars>>

\* the rest of the iteration of _check_alerts up to its sleep: raise the new
\* alerts, extend the list, drop the alerts older than one hour
AlertPassRaises ==
    /\ Len(returned_states) = 1
    /\ \E kinds \in NewAlertKinds :
          LET new_alerts == [i \in 1..Len(kinds) |-> AlertOfKind(kinds[i], clock)]
              sampled    == returned_states[1].alerts.items
          IN /\ Len(current_alerts) + Len(new_alerts) <= MaxAlertsHeld
             /\ current_alerts' =
                    PruneAlerts(PruneSource(current_alerts \o new_alerts,
                                            sampled \o new_alerts), clock)
             /\ pass_log' = {[before |-> current_alerts, new |-> new_alerts, at |-> clock,
                              sampled_alerts |-> sampled]}
    /\ returned_states' = <<>>
    /\ UNCHANGED <<clock, health_pass>>
    /\ UNCHANGED <<engineVars, healVars, deployVars, execVars, learnVars, taskVars,
                   agentVars, loopVars, patternVars>>

NextRaces == Tick \/ AlertPassSamples \/ AlertPassRaises \/ HealthPassBegin \/ HealthCheck

SpecRaces == InitRaces /\ [][NextRaces]_vars

IsPrefix(s, t) == Len(s) <= Len(t) /\ \A i \in 1..Len(s) : s[i] = t[i]

\* the health alerts of a list that are not older than one hour at time t
FreshHealthAlerts(alerts, t) ==
    SelectSeq(alerts, LAMBDA a : a.type = "health" /\ Fresh(a, t))

\* C31: whatever the interleaving of the health checker and the alert checker, a
\* health alert stays in the alert list from its append on: a step that is not
\* the end of an alert-check pass removes nothing, and an alert-check pass keeps
\* every health alert that is not older than one hour
C31_HealthAlertsNotLost ==
    [][/\ pass_log' = {} => IsPrefix(current_alerts, current_alerts')
       /\ IsPrefix(FreshHealthAlerts(current_alerts, clock'),
                   FreshHealthAlerts(current_alerts', clock'))]_vars

\* an alert-check pass ended that had sampled the state before the health
\* checker appended an alert, and that alert is in the alert list
C31_Witness ==
    \E p \in pass_log :
        /\ "sampled_alerts" \in DOMAIN p
        /\ Len(p.before) > Len(p.sampled_alerts)
        /\ p.before[Len(p.before)].type = "health"
        /\ p.before[Len(p.before)] \in Elements(current_alerts)


\* C32: every decision held in the decision history after a make_decisions call
\* was returned by that call, i.e. is among the at most 5 decisions handed to
\* the executor; a decision dropped by the cap is not recorded
C32_HistoryHoldsReturnedOnly ==
    engine_pc = "returned" =>
        \A i \in 1..Len(decision_history) :
            Count(decision_history, decision_history[i]) <= Count(decisions, decision_history[i])


(***************************************************************************)
(* DevOpsAgent: what the Learning Module records for the executed decisions *)
(***************************************************************************)

RECURSIVE LearnEach(_, _)
\* for decision in decisions: the body of the loop of update_from_actions,
\* outcome after outcome
LearnEach(st, outcomes) ==
    IF outcomes = <<>> THEN st
    ELSE LearnEach(LearnOutcome(st, Head(outcomes)), Tail(outcomes))

InitOutcome == InitLoop

\* await self.learning_module.update_from_actions(decisions, system_state), then
\* the sleep that ends the cycle; execution_success is drawn by
\* _simulate_action_outcome for every decision
LoopLearnOutcomes ==
    /\ engine_pc = "returned"
    /\ exec_pos = Len(decisions)
    /\ Len(outcome_log) + Len(decisions) <= MaxOutcomes
    /\ LET types == ActionTypesOf(decisions)
       IN \E draws \in DrawSeqs(types), successes \in [1..Len(types) -> BOOLEAN] :
             LET outcomes == [i \in 1..Len(types) |->
                                ObservedOutcome(types[i], system_state, draws[i],
                                                successes[i], HourOf(now))]
                 st == LearnEach([effectiveness |-> decision_effectiveness,
                                  thresholds |-> learned_thresholds,
                                  patterns |-> performance_patterns], outcomes)
             IN /\ decision_effectiveness' = st.effectiveness
                /\ learned_thresholds' = st.thresholds
                /\ performance_patterns' = st.patterns
                /\ outcome_log' = outcome_log \o outcomes
    /\ cycle_log' = Append(cycle_log, Event("learn", <<decisions, system_state>>))
    /\ engine_pc' = "fetch"
    /\ UNCHANGED <<recommendation, metrics_call, exec_pos>>
    /\ UNCHANGED <<system_state, context, now, analyzed, decisions, decision_history, config>>
    /\ UNCHANGED <<healVars, deployVars, execVars, taskVars, monitorVars, agentVars, snapVars>>

NextOutcome ==
    LoopFetch \/ MakeDecisions \/ CycleExecStart \/ CycleExecReturns \/ LoopLearnOutcomes

SpecOutcome == InitOutcome /\ [][NextOutcome]_vars

\* C33: when a cycle has learned, the ActionOutcome recorded for each of its
\* decisions has execution_success equal to the success flag of the
\* ExecutionResult that execute_action returned for that decision
C33_OutcomeSuccessIsResultSuccess ==
    (engine_pc = "fetch" /\ cycle_log # <<>>) =>
        \A i \in 1..Len(decisions) :
            outcome_log[Len(outcome_log) - Len(decisions) + i].execution_success
                = execution_history[Len(execution_history) - Len(decisions) + i].success


(***************************************************************************)
(* DevOpsAgent: repeated start_monitoring and stop calls                   *)
(***************************************************************************)

MaxTaskSets == 2

TaskSets == 1..MaxTaskSets

InitStarts ==
    /\ is_running = FALSE
    /\ is_monitoring = FALSE
    /\ starts = 0
    /\ task_pc = [k \in TaskKinds |-> [i \in TaskSets |-> "none"]]
    /\ health_idx = [i \in TaskSets |-> 0]
    /\ loop_left = [i \in TaskSets |-> 0]
    /\ cycle_bit = [i \in TaskSets |-> FALSE]
    /\ after_error = [i \in TaskSets |-> FALSE]
    /\ EngineIdle /\ HealIdle /\ DeployIdle /\ ExecIdle /\ LearnIdle /\ MonitorIdle /\ AgentIdle
    /\ LoopIdle /\ SnapIdle /\ PatternIdle

\* DevOpsAgent.start_monitoring (project_context being set), including
\* MonitoringSystem.start_monitoring, whatever was started before: both flags go
\* true and four tasks are created by asyncio.create_task
StartMonitoringAgain ==
    /\ starts < MaxTaskSets
    /\ starts' = starts + 1
    /\ is_running' = TRUE
    /\ is_monitoring' = TRUE
    /\ task_pc' = [k \in TaskKinds |-> [task_pc[k] EXCEPT ![starts + 1] = "created"]]
    /\ UNCHANGED <<health_idx, loop_left, cycle_bit, after_error>>
    /\ UNCHANGED <<engineVars, healVars, deployVars, execVars, learnVars, monitorVars,
                   agentVars, loopVars, patternVars, snapVars>>

\* while self.is_running: for the decision loop, while self.is_monitoring: for
\* the three monitoring tasks
LoopFlag(kind) == IF kind = "loop" THEN is_running ELSE is_monitoring

\* a periodic task at its loop test: it returns when its flag is false, else it
\* runs one iteration up to the sleep that ends it (the sleep of the except
\* branch if the iteration raised)
TaskIteration(kind, i) ==
    /\ AtLoopTest(task_pc[kind][i])
    /\ IF ~KeepsLooping(LoopFlag(kind))
          THEN SetPc(kind, i, "exited")
          ELSE \E raised \in BOOLEAN : SetPc(kind, i, IF raised THEN OnError ELSE "sleep")
    /\ UNCHANGED <<is_running, is_monitoring, starts, health_idx, loop_left, cycle_bit,
                   after_error>>
    /\ UNCHANGED <<engineVars, healVars, deployVars, execVars, learnVars, monitorVars,
                   agentVars, loopVars, patternVars, snapVars>>

NextStarts ==
    \/ StartMonitoringAgain
    \/ Stop
    \/ \E kind \in TaskKinds, i \in TaskSets : TaskIteration(kind, i)

SpecStarts == InitStarts /\ [][NextStarts]_vars

\* the instances of a periodic task that were created and have not returned
ActiveInstances(kind) == {i \in DOMAIN task_pc[kind] : task_pc[kind][i] \notin {"none", "exited"}}

\* C34: whatever start_monitoring and stop calls were made, at most one
\* instance of each periodic task is active
C34_OneInstancePerTask ==
    \A kind \in TaskKinds : Cardinality(ActiveInstances(kind)) <= 1


(***************************************************************************)
(* DevOpsAgent: stop() while the decision loop runs                        *)
(*   engine_pc is the position of the loop as above, "fetch" being the     *)
(*   sleep that ends a cycle and the loop test after it, "exited" the      *)
(*   coroutine returned. stop() runs while the loop task is suspended: in  *)
(*   an execute_action call or in the sleep.                               *)
(***************************************************************************)

\* a variant whose for loop also tests the flag before each decision
ExitsBetweenActions == engine_pc \in {"fetch", "returned"}

\* while self.is_running: the only test of the flag, after the sleep
AtWhileTest == engine_pc = "fetch"

InitShutdown ==
    /\ now = 2160
    /\ system_state = NoState
    /\ context = [project_type |-> "python", caching |-> FALSE]
    /\ engine_pc = "fetch"
    /\ analyzed = NoAnalysis
    /\ decisions = <<>>
    /\ decision_history = <<>>
    /\ config = DefaultConfig
    /\ is_running = TRUE
    /\ is_monitoring = TRUE
    /\ starts = 1
    /\ task_pc = [k \in TaskKinds |-> [i \in 1..MaxStarts |-> "created"]]
    /\ health_idx = [i \in 1..MaxStarts |-> 0]
    /\ loop_left = [i \in 1..MaxStarts |-> 0]
    /\ cycle_bit = [i \in 1..MaxStarts |-> FALSE]
    /\ after_error = [i \in 1..MaxStarts |-> FALSE]
    /\ LearnIdle
    /\ HealIdle /\ DeployIdle /\ ExecIdle /\ MonitorIdle /\ AgentIdle
    /\ LoopIdle /\ SnapIdle /\ PatternIdle

\* the loop test finds is_running true and the cycle begins
LoopFetchIfRunning ==
    /\ KeepsLooping(is_running)
    /\ LoopFetch

\* DevOpsAgent.stop, called while the loop task is suspended
StopDuringLoop ==
    /\ is_running
    /\ engine_pc \in {"fetch", "exec"}
    /\ is_running' = FALSE
    /\ is_monitoring' = FALSE
    /\ cycle_log' = Append(cycle_log, Event("stop", engine_pc))
    /\ UNCHANGED <<starts, task_pc, health_idx, loop_left, cycle_bit, after_error, exec_pos>>
    /\ UNCHANGED <<engineVars, healVars, deployVars, execVars, learnVars, monitorVars,
                   agentVars, patternVars, snapVars>>

\* the loop finds is_running false and the coroutine returns
LoopExits ==
    /\ AtWhileTest
    /\ ~KeepsLooping(is_running)
    /\ engine_pc' = "exited"
    /\ cycle_log' = Append(cycle_log, Event("exit", engine_pc))
    /\ UNCHANGED <<system_state, context, now, analyzed, decisions, decision_history, config,
                   exec_pos>>
    /\ UNCHANGED <<healVars, deployVars, execVars, learnVars, taskVars, monitorVars,
                   agentVars, patternVars, snapVars>>

NextShutdown ==
    \/ LoopFetchIfRunning
    \/ MakeDecisions
    \/ CycleExecStart
    \/ CycleExecReturns
    \/ LoopLearn
    \/ StopDuringLoop
    \/ LoopExits

SpecShutdown == InitShutdown /\ [][NextShutdown]_vars

\* the positions of the events of one kind in the log
EventsOf(log, kind) == {j \in 1..Len(log) : log[j].kind = kind}

\* C35: after stop() the log shows no further fetch; when the loop has exited
\* after a stop that came during a cycle, every decision of that cycle was
\* executed (each call begun and returned) and the cycle's learning update was
\* given all of them, before the exit
C35_StopLetsCycleFinish ==
    /\ \A s \in EventsOf(cycle_log, "stop") :
          \A j \in EventsOf(cycle_log, "fetch") : j < s
    /\ \A x \in EventsOf(cycle_log, "exit") :
          \A f \in Fetches(cycle_log) :
                LET later == {j \in Fetches(cycle_log) : j > f}
                IN later = {} =>
                      /\ DataOf(cycle_log, f, x, "start") = decisions
                      /\ DataOf(cycle_log, f, x, "return") = decisions
                      /\ DataOf(cycle_log, f, x, "learn") = <<<<decisions, system_state>>>>

\* the loop has exited; stop() came while the first of two decisions was being
\* executed, and the second one was executed after it
C35_Witness ==
    /\ engine_pc = "exited"
    /\ Len(decisions) = 2
    /\ \E s \in EventsOf(cycle_log, "stop") :
          /\ cycle_log[s].data = "exec"
          /\ Cardinality({j \in EventsOf(cycle_log, "start") : j > s}) = 1
          /\ Cardinality({j \in EventsOf(cycle_log, "learn") : j > s}) = 1


\* C36: the list make_decisions returns never holds both a scale_up and a
\* scale_down decision, and never two scale_down decisions for the target
\* "compute"
C36_NoContradictoryScaling ==
    engine_pc = "returned" =>
        /\ ~(/\ \E i \in 1..Len(decisions) : decisions[i].action_type = "scale_up"
             /\ \E i \in 1..Len(decisions) : decisions[i].action_type = "scale_down")
        /\ CountWhere(decisions,
                      LAMBDA d : d.action_type = "scale_down" /\ d.target = "compute") <= 1


(***************************************************************************)
(* DevOpsAgent: security alerts over the cycles of the decision loop       *)
(*   The alert checker and the decision loop run side by side within one   *)
(*   hour, so no alert is pruned.                                          *)
(***************************************************************************)

InitSecurity == InitLoop

\* system_state = await self.monitoring_system.get_system_state(): the state
\* carries a copy of the alert list as it is at the call
LoopFetchWithAlerts ==
    /\ engine_pc = "fetch"
    /\ Cardinality(Fetches(cycle_log)) < MaxCycles
    /\ \E s \in CycleStates(now) :
          LET fetched == [s EXCEPT !.alerts = CopyOfList(current_alerts).items]
          IN /\ system_state' = fetched
             /\ cycle_log' = Append(cycle_log, Event("fetch", fetched))
    /\ engine_pc' = "ready"
    /\ exec_pos' = 0
    /\ UNCHANGED <<context, now, analyzed, decisions, decision_history, config>>
    /\ UNCHANGED <<healVars, deployVars, execVars, learnVars, taskVars, monitorVars,
                   agentVars, patternVars, snapVars>>

NextSecurity ==
    \/ AlertCheckPass
    \/ LoopFetchWithAlerts
    \/ MakeDecisions
    \/ CycleExecStart
    \/ CycleExecReturns
    \/ LoopLearn

SpecSecurity == InitSecurity /\ [][NextSecurity]_vars

\* the execute_action calls begun for update_security decisions that name the
\* alert id
UpdatesFor(log, id) ==
    {j \in EventsOf(log, "start") :
        /\ log[j].data.action_type = "update_security"
        /\ "alert_id" \in DOMAIN log[j].data.parameters
        /\ log[j].data.parameters.alert_id = id}

\* C37: over the cycles of the loop an alert gives rise to at most one executed
\* update_security decision: the update_security executions that name an alert
\* id are no more than the alerts raised with that id
C37_OneSecurityUpdatePerAlert ==
    \A id \in {current_alerts[i].id : i \in 1..Len(current_alerts)} :
        Cardinality(UpdatesFor(cycle_log, id))
            <= CountWhere(current_alerts, LAMBDA a : a.id = id)


(***************************************************************************)
(* DevOpsAgent: the decision loop after a deployment                       *)
(*   Everything here happens within the minute `now`, so a deploy() that   *)
(*   has completed lies less than one hour back.                           *)
(***************************************************************************)

InitRollback == InitLoop

NextRollback ==
    \/ AnalyzeRepository
    \/ Deploy
    \/ LoopFetch
    \/ MakeDecisions
    \/ CycleExecStart
    \/ CycleExecReturns
    \/ LoopLearn

SpecRollback == InitRollback /\ [][NextRollback]_vars

HasType(ds, action_type) == \E i \in 1..Len(ds) : ds[i].action_type = action_type

\* C38: in the running loop a cycle that finds error_rate above 5 shortly after
\* a deployment gets rollback from make_decisions, not restart_service
C38_RollbackAfterDeployment ==
    [][(/\ engine_pc = "ready"
        /\ engine_pc' = "returned"
        /\ deployed
        /\ system_state.error_rate > thresholds.error_rate)
           => (HasType(decisions', "rollback") /\ ~HasType(decisions', "restart_service"))]_vars

\* no cycle of the loop ever gets a rollback decision
NeverRollback == ~HasType(decisions, "rollback")


\* the update appends a sample to the learned threshold list of the action type
AppendsSample(action_type) ==
    LET key == ThresholdKey(action_type)
    IN /\ key \in DOMAIN learned_thresholds'
       /\ Len(learned_thresholds'[key]) >
             (IF key \in DOMAIN learned_thresholds THEN Len(learned_thresholds[key]) ELSE 0)

\* C39: for scale_up and for scale_down a learning update is possible whose
\* simulated outcome has an overall effectiveness above 0.5 and which appends
\* the before-state CPU value to the learned threshold list of that action type
\* (stated for a Learning Module that has recorded nothing yet)
C39_ScalingTypesCanLearn ==
    outcome_log = <<>> =>
        \A action_type \in {"scale_up", "scale_down"} :
            ENABLED (UpdateFromActions /\ AppendsSample(action_type))

\* the same for scale_up alone
ScaleUpCanLearn ==
    outcome_log = <<>> => ENABLED (UpdateFromActions /\ AppendsSample("scale_up"))

\* no scale_down outcome of the simulation is effective: the learned scale_down
\* list never gets a sample
ScaleDownNeverLearns ==
    /\ \A i \in 1..Len(outcome_log) :
          outcome_log[i].action_type = "scale_down" => ~Effective(outcome_log[i].effectiveness)
    /\ "scale_down_cpu_threshold" \in DOMAIN learned_thresholds =>
          learned_thresholds["scale_down_cpu_threshold"] = <<>>


(***************************************************************************)
(* DevOpsAgent.deploy: the plan of create_deployment_plan, executed        *)
(***************************************************************************)

\* the first stages of every pipeline
BuildStages ==
    << [name |-> "source", type |-> "source_control"],
       [name |-> "build", type |-> "build"],
       [name |-> "test", type |-> "test"] >>

\* if context.security_requirements: stages.append(security_scan)
ScanStages(ctx) ==
    IF ctx.security_requirements # <<>>
       THEN << [name |-> "security_scan", type |-> "security"] >>
       ELSE <<>>

\* a variant that deploys to production before the integration tests
CreatePipelineStagesProductionEarly(ctx) ==
    BuildStages \o ScanStages(ctx)
    \o << [name |-> "deploy_staging", type |-> "deploy"],
          [name |-> "deploy_production", type |-> "deploy"],
          [name |-> "integration_tests", type |-> "test"] >>

\* DecisionEngine._create_pipeline_stages (name and type of every stage)
CreatePipelineStages(ctx) ==
    BuildStages \o ScanStages(ctx)
    \o << [name |-> "deploy_staging", type |-> "deploy"],
          [name |-> "integration_tests", type |-> "test"],
          [name |-> "deploy_production", type |-> "deploy"] >>

\* CodeUnderstanding._analyze_security_requirements: the requirements found, each
\* at most once, in the order authentication, tls_encryption, secret_management
AnalyzeSecurityRequirements(found) ==
    SelectSeq(<<"authentication", "tls_encryption", "secret_management">>,
              LAMBDA requirement : requirement \in found)

\* the project contexts deploy() is called with
PlanContexts ==
    [project_type : {"python"}, caching : BOOLEAN,
     security_requirements :
         {AnalyzeSecurityRequirements(found) :
             found \in SUBSET {"authentication", "tls_encryption", "secret_management"}}]

InitPlan ==
    /\ project_context \in {{ctx} : ctx \in PlanContexts}
    /\ deployed = FALSE
    /\ api_call = {}
    /\ status_reports = <<>>
    /\ DeployIdle
    /\ EngineIdle /\ HealIdle /\ ExecIdle /\ LearnIdle /\ TasksIdle /\ MonitorIdle
    /\ LoopIdle /\ SnapIdle /\ PatternIdle

\* DevOpsAgent.deploy up to the call of execute_deployment: the plan is that of
\* create_deployment_plan for the project context
DeployCreatesPlan ==
    /\ deploy_pc = "idle"
    /\ \E ctx \in project_context :
          plan' = CreatePipelineStages(ctx)
    /\ deploy_pc' = "ready"
    /\ UNCHANGED <<stage_idx, stage_results, overall_success>>
    /\ UNCHANGED <<engineVars, healVars, execVars, learnVars, taskVars, monitorVars,
                   agentVars, loopVars, patternVars, snapVars>>

NextPlan == DeployCreatesPlan \/ DeployBegin \/ DeployStageReturns

SpecPlan == InitPlan /\ [][NextPlan]_vars

NamesOf(stages) == [i \in 1..Len(stages) |-> stages[i].name]

\* C40: the plan deploy() executes has the stages source, build, test,
\* security_scan (only with security requirements), deploy_staging,
\* integration_tests, deploy_production in this order, deploy_production once
\* and last; and execute_deployment runs no stage after a failed one
C40_ProductionLastNothingAfterFailure ==
    deploy_pc # "idle" =>
        /\ \A ctx \in project_context :
              NamesOf(plan) =
                  <<"source", "build", "test">>
                  \o (IF Len(ctx.security_requirements) > 0 THEN <<"security_scan">> ELSE <<>>)
                  \o <<"deploy_staging", "integration_tests", "deploy_production">>
        /\ Cardinality({i \in 1..Len(plan) : plan[i].name = "deploy_production"}) = 1
        /\ plan[Len(plan)].name = "deploy_production"
        /\ \A i \in 1..Len(stage_results) - 1 : stage_results[i].success

\* a plan with a security scan ran to its last stage, deploy_production, which
\* failed
C40_Witness ==
    /\ deploy_pc = "done"
    /\ Len(plan) = 7
    /\ Len(stage_results) = 7
    /\ stage_results[7].name = "deploy_production"
    /\ ~stage_results[7].success

=============================================================================
